---- MODULE Spec2Model ----
(***************************************************************************)
(* Model of backtest.js: the BacktestEngine position state machine, the    *)
(* optimizer loop getBestResult, and the asynchronous loading of the       *)
(* candle, indicator and step-size caches.                                 *)
(*                                                                         *)
(* Numbers.  JavaScript numbers are modelled as exact rationals.  Money is *)
(* an integer count of 1/Scale currency units, a quantity is an integer    *)
(* count of 10^-precision units, a price is an integer, a time is an       *)
(* integer count of milliseconds.  A ratio (drawdown, oscillator value,    *)
(* return) is a pair <<numerator, denominator>>.  A nullable field is the  *)
(* empty sequence (null) or a one-element sequence <<v>>.                  *)
(***************************************************************************)
EXTENDS Integers, Sequences, FiniteSets, TLC

\* --------------------------------------------------------------- bounds
\* Bars of one run that the loop of run() processes at most.
MaxBars == 4
\* Candidates of one sweep at most.
MaxCandidates == 3
\* CONFIG.KLINE_LIMIT: the records of one page of candles
KLINE_LIMIT == 2
\* Candles the Candle Store holds at most, when a fetch is studied alone.
MaxKlines == 4
\* Closes given to one call of computeRSI at most, and its longest period.
MaxCloses == 4
MaxPeriod == 3
MaxSpace == 4
MaxSample == 5
MaxTrades == 3

\* ---------------------------------------------------------------- CONFIG
INITIAL_FUNDING == 100
ORDER_AMOUNT_PERCENT == 100
\* FEE: 0.0005 and FUNDING_RATE: 0.0001, as counts of 1/RateDen.
RateDen == 10 * 1000
FEE == 5
FUNDING_RATE == 1
HOUR_MS == 1000 * 60 * 60
FUNDING_PERIOD_MS == 8 * 1000 * 60 * 60
\* CONFIG.KLINE_INTERVAL is a configuration string; the model runs the 4h
\* interval, so that whole funding periods elapse within MaxBars bars.
KLINE_INTERVAL_MS == 4 * HOUR_MS
\* The values CONFIG.MAX_DRAWDOWN_THRESHOLD takes in the model ("number or
\* null"; the engine of the detailed re-run gets none): 0 and 0.5.
Thresholds == {<<0, 1>>, <<1, 2>>}
\* CONFIG.LEVERAGE_SETTING values of the model.
Leverages == {1, 2}
\* LOT_SIZE step sizes of the model, as strings of characters.
StepSizes == {<<"1">>}
\* Entry and exit levels of the run, and the oscillator values a series
\* holds in the model: below, at and above the levels.
RsiLongLevel == 50
RsiShortLevel == 50
RsiLongValues == {<<50, 1>>, <<80, 1>>}
RsiShortValues == {<<20, 1>>, <<50, 1>>}
\* Prices of the model's candles.
Prices == {10, 25}

Null == <<>>
Some(v) == <<v>>
Val(x) == x[1]

\* ------------------------------------------------------------ arithmetic
Abs(x) == IF x < 0 THEN -x ELSE x
Max(a, b) == IF a > b THEN a ELSE b
Min(a, b) == IF a < b THEN a ELSE b
Pow10(n) == IF n = 0 THEN 1 ELSE IF n = 1 THEN 10 ELSE IF n = 2 THEN 100 ELSE 1000

\* floor(a / b) for b > 0 (Math.floor).
Floor(a, b) == a \div b

\* a/b < c/d for a, c >= 0 and b, d > 0, by continued fractions (no products,
\* so that no intermediate value leaves the integer range).
RECURSIVE FracLess(_, _, _, _)
FracLess(a, b, c, d) ==
    LET qa == a \div b
        qc == c \div d
        ra == a % b
        rc == c % d
    IN  IF qa # qc THEN qa < qc
        ELSE IF rc = 0 THEN FALSE
        ELSE IF ra = 0 THEN TRUE
        ELSE FracLess(d, rc, b, ra)

\* Number.prototype.toFixed at integer granularity: n/d rounded to the
\* nearest integer, halves away from zero (d > 0).
RoundHalfAway(n, d) ==
    IF n >= 0 THEN (2 * n + d) \div (2 * d)
    ELSE -((2 * (-n) + d) \div (2 * d))

RECURSIVE GCD(_, _)
GCD(a, b) == IF b = 0 THEN a ELSE GCD(b, a % b)

\* ------------------------------------------------------------- step size
\* String.prototype.indexOf("1"), 0-based, -1 when absent.
IndexOfOne(size) ==
    IF \E k \in 1..Len(size) : size[k] = "1"
    THEN (CHOOSE k \in 1..Len(size) :
              size[k] = "1" /\ \A j \in 1..(k - 1) : size[j] # "1") - 1
    ELSE -1

getPrecisionBySize(size) ==
    IF size = <<"1">> THEN 0 ELSE IndexOfOne(size) - 1

MaxPrecision ==
    CHOOSE m \in 0..3 :
        /\ \A s \in StepSizes : getPrecisionBySize(s) <= m
        /\ \E s \in StepSizes : getPrecisionBySize(s) = m

\* Money unit: 1/Scale, fine enough for fees, funding fees and every
\* quantity precision of StepSizes to be integers.
Scale == RateDen * Pow10(MaxPrecision)
\* Money units of the notional of one quantity unit at price 1.
NotionalUnit(size) == RateDen * Pow10(MaxPrecision - getPrecisionBySize(size))

\* formatBySize(number, size) for number = n/d (d > 0): the count of
\* 10^-precision quantity units of Number(number.toFixed(precision)).
formatBySize(n, d, size) ==
    RoundHalfAway(n * Pow10(getPrecisionBySize(size)), d)

\* ------------------------------------------------------------ the engine
Runs == {"sweep", "logged", "detail"}

\* strategyParams.maxDrawdownThreshold || null
ThresholdOrNull(t) ==
    IF t = Null THEN Null ELSE IF t[1] = 0 THEN Null ELSE t

\* new BacktestEngine(cachedKlineData, cachedRsiData, stepSize, strategyParams)
BacktestEngine(stepSize, leverage, shouldLogResults, maxDrawdownThreshold) ==
    [ status |-> "running",
      stepSize |-> stepSize,
      leverage |-> leverage,
      shouldLogResults |-> shouldLogResults,
      maxDrawdownThreshold |-> ThresholdOrNull(maxDrawdownThreshold),
      fund |-> INITIAL_FUNDING * Scale,
      positionType |-> "NONE",
      positionAmt |-> Null,
      positionFund |-> Null,
      openTimestamp |-> Null,
      openPrice |-> Null,
      liquidationPrice |-> Null,
      positionMaxPrice |-> Null,
      positionMinPrice |-> Null,
      totalTrades |-> 0,
      winningTrades |-> 0,
      losingTrades |-> 0,
      totalPnl |-> 0,
      maxDrawdown |-> <<0, 1>>,
      peakFund |-> INITIAL_FUNDING * Scale,
      totalHoldTimeMs |-> 0,
      tradeRecords |-> <<>> ]

\* v > level for an oscillator value v = <<n, d>>.
RsiAbove(v, level) == v[1] > level * v[2]
RsiBelow(v, level) == v[1] < level * v[2]

\* getSignal without the tests of positionType.
getSignalAnyState(e, preRsiLong, preRsiShort) ==
    IF RsiAbove(preRsiLong, RsiLongLevel) THEN "OPEN_LONG"
    ELSE IF RsiBelow(preRsiShort, RsiShortLevel) THEN "CLOSE_LONG"
    ELSE "NONE"

getSignal(e, preRsiLong, preRsiShort) ==
    IF e.positionType = "NONE" /\ RsiAbove(preRsiLong, RsiLongLevel)
    THEN "OPEN_LONG"
    ELSE IF e.positionType = "LONG" /\ RsiBelow(preRsiShort, RsiShortLevel)
    THEN "CLOSE_LONG"
    ELSE "NONE"

\* Math.floor((closeTimestamp - openTimestamp) / FUNDING_PERIOD_MS) whole
\* periods, each charged FUNDING_RATE of the notional at the close price.
calculateFundingFee(e, closePrice, closeTimestamp) ==
    IF e.openTimestamp = Null \/ closeTimestamp = 0 THEN 0
    ELSE IF Val(e.openTimestamp) = 0 THEN 0
    ELSE LET periods == Floor(closeTimestamp - Val(e.openTimestamp),
                              FUNDING_PERIOD_MS)
         IN  IF periods <= 0 THEN 0
             ELSE (Val(e.positionAmt) * closePrice * NotionalUnit(e.stepSize)
                   * FUNDING_RATE * periods) \div RateDen

calculateFundingFeeForClose(e, closePrice, closeTimestamp) ==
    IF e.openTimestamp = Null \/ closeTimestamp = 0 THEN 0
    ELSE IF Val(e.openTimestamp) = 0 THEN 0
    ELSE LET periods == Floor(closeTimestamp - Val(e.openTimestamp),
                              FUNDING_PERIOD_MS)
         IN  IF periods <= 0 THEN 0
             ELSE (Val(e.positionAmt) * closePrice * NotionalUnit(e.stepSize)
                   * FUNDING_RATE * periods) \div RateDen

openLongPosition(e, kline) ==
    LET openPrice == kline.openPrice
        g == GCD(ORDER_AMOUNT_PERCENT, 100)
        \* fund * orderAmountPercent * leverage / openPrice, in quantity units
        positionAmt ==
            formatBySize(e.fund * (ORDER_AMOUNT_PERCENT \div g) * e.leverage,
                         Scale * (100 \div g) * openPrice, e.stepSize)
        positionValue == positionAmt * openPrice * NotionalUnit(e.stepSize)
        fee == (positionValue * FEE) \div RateDen
        positionFund == positionValue \div e.leverage
    IN  [e EXCEPT !.openPrice = Some(openPrice),
                  !.positionAmt = Some(positionAmt),
                  !.positionFund = Some(positionFund),
                  !.fund = e.fund - (positionFund + fee),
                  !.positionType = "LONG",
                  !.openTimestamp = Some(kline.openTime),
                  !.liquidationPrice =
                      Some(<<openPrice * (e.leverage - 1), e.leverage>>),
                  !.positionMaxPrice = Some(kline.highPrice),
                  !.positionMinPrice = Some(kline.lowPrice)]

\* logTradeResult that also settles the fund it reports.
logTradeResultSettling(e, closePrice, closeTimestamp, pnl) ==
    [e EXCEPT !.fund = e.fund + Val(e.positionFund) + pnl,
              !.tradeRecords = Append(@,
                 [ finalFund |-> e.fund + Val(e.positionFund) + pnl,
                   openTimestamp |-> Val(e.openTimestamp),
                   closeTimestamp |-> closeTimestamp ])]

\* logTradeResult that records the adverse excursion without its sign.
logTradeResultUnsigned(e, closePrice, closeTimestamp, pnl) ==
    LET tracked == /\ e.positionType = "LONG"
                   /\ e.positionMinPrice # Null /\ e.positionMaxPrice # Null
                   /\ Val(e.positionMinPrice) # 0 /\ Val(e.positionMaxPrice) # 0
        mae == IF tracked
               THEN <<Val(e.openPrice) - Val(e.positionMinPrice), Val(e.openPrice)>>
               ELSE <<0, 1>>
        mfe == IF tracked
               THEN <<Val(e.positionMaxPrice) - Val(e.openPrice), Val(e.openPrice)>>
               ELSE <<0, 1>>
    IN  [e EXCEPT !.tradeRecords = Append(@,
            [ finalFund |-> e.fund + Val(e.positionFund) + pnl,
              positionType |-> e.positionType,
              openPrice |-> Val(e.openPrice),
              closePrice |-> closePrice,
              pnl |-> pnl,
              pnlPercent |-> <<pnl, Val(e.positionFund)>>,
              openTimestamp |-> Val(e.openTimestamp),
              closeTimestamp |-> closeTimestamp,
              holdHours |-> <<closeTimestamp - Val(e.openTimestamp), HOUR_MS>>,
              mae |-> mae,
              mfe |-> mfe,
              maeLeveraged |-> <<mae[1] * e.leverage, mae[2]>>,
              mfeLeveraged |-> <<mfe[1] * e.leverage, mfe[2]>> ])]

logTradeResult(e, closePrice, closeTimestamp, pnl) ==
    LET tracked == /\ e.positionType = "LONG"
                   /\ e.positionMinPrice # Null /\ e.positionMaxPrice # Null
                   /\ Val(e.positionMinPrice) # 0 /\ Val(e.positionMaxPrice) # 0
        mae == IF tracked
               THEN <<-(Val(e.openPrice) - Val(e.positionMinPrice)), Val(e.openPrice)>>
               ELSE <<0, 1>>
        mfe == IF tracked
               THEN <<Val(e.positionMaxPrice) - Val(e.openPrice), Val(e.openPrice)>>
               ELSE <<0, 1>>
    IN  [e EXCEPT !.tradeRecords = Append(@,
            [ finalFund |-> e.fund + Val(e.positionFund) + pnl,
              positionType |-> e.positionType,
              openPrice |-> Val(e.openPrice),
              closePrice |-> closePrice,
              pnl |-> pnl,
              pnlPercent |-> <<pnl, Val(e.positionFund)>>,
              openTimestamp |-> Val(e.openTimestamp),
              closeTimestamp |-> closeTimestamp,
              holdHours |-> <<closeTimestamp - Val(e.openTimestamp), HOUR_MS>>,
              mae |-> mae,
              mfe |-> mfe,
              maeLeveraged |-> <<mae[1] * e.leverage, mae[2]>>,
              mfeLeveraged |-> <<mfe[1] * e.leverage, mfe[2]>> ])]

\* totalHoldTimeHours is kept as its count of milliseconds.
updateTradeStats(e, pnl, closeTimestamp) ==
    [e EXCEPT !.totalTrades = @ + 1,
              !.totalPnl = @ + pnl,
              !.winningTrades = IF pnl > 0 THEN @ + 1 ELSE @,
              !.losingTrades = IF pnl > 0 THEN @ ELSE @ + 1,
              !.totalHoldTimeMs = @ + (closeTimestamp - Val(e.openTimestamp))]

resetPosition(e) ==
    [e EXCEPT !.positionType = "NONE",
              !.positionAmt = Null,
              !.positionFund = Null,
              !.openTimestamp = Null,
              !.openPrice = Null,
              !.liquidationPrice = Null,
              !.positionMaxPrice = Null,
              !.positionMinPrice = Null]

\* closeLongPosition that pays the PnL but keeps the margin.
closeLongPositionKeepMargin(e, kline) ==
    LET closePrice == kline.openPrice
        closeTimestamp == kline.openTime
        fee == (Val(e.positionAmt) * closePrice * NotionalUnit(e.stepSize) * FEE)
               \div RateDen
        fundingFee == calculateFundingFee(e, closePrice, closeTimestamp)
        pnl == (closePrice - Val(e.openPrice)) * Val(e.positionAmt)
                   * NotionalUnit(e.stepSize) - fee - fundingFee
        logged == IF e.shouldLogResults
                  THEN logTradeResult(e, closePrice, closeTimestamp, pnl)
                  ELSE e
        paid == [logged EXCEPT !.fund = @ + pnl]
    IN  resetPosition(updateTradeStats(paid, pnl, closeTimestamp))

closeLongPosition(e, kline) ==
    LET closePrice == kline.openPrice
        closeTimestamp == kline.openTime
        fee == (Val(e.positionAmt) * closePrice * NotionalUnit(e.stepSize) * FEE)
               \div RateDen
        fundingFee == calculateFundingFee(e, closePrice, closeTimestamp)
        pnl == (closePrice - Val(e.openPrice)) * Val(e.positionAmt)
                   * NotionalUnit(e.stepSize) - fee - fundingFee
        logged == IF e.shouldLogResults
                  THEN logTradeResult(e, closePrice, closeTimestamp, pnl)
                  ELSE e
        paid == [logged EXCEPT !.fund = @ + Val(e.positionFund) + pnl]
    IN  resetPosition(updateTradeStats(paid, pnl, closeTimestamp))

\* checkLiquidation with the comparison the wrong way round.
checkLiquidationReversed(e, curLowPrice) ==
    /\ e.positionType = "LONG"
    /\ e.liquidationPrice # Null
    /\ curLowPrice * Val(e.liquidationPrice)[2] > Val(e.liquidationPrice)[1]

checkLiquidation(e, curLowPrice) ==
    /\ e.positionType = "LONG"
    /\ e.liquidationPrice # Null
    /\ curLowPrice * Val(e.liquidationPrice)[2] < Val(e.liquidationPrice)[1]

\* Mark-to-market equity at a close price: fund + positionFund + unrealized
\* PnL while LONG, fund alone otherwise.
currentTotalFund(e, curClosePrice) ==
    IF e.positionType = "LONG"
    THEN e.fund + Val(e.positionFund)
         + (curClosePrice - Val(e.openPrice)) * Val(e.positionAmt)
               * NotionalUnit(e.stepSize)
    ELSE e.fund

updateDrawdown(e, curClosePrice) ==
    LET cur == currentTotalFund(e, curClosePrice)
    IN  IF cur > e.peakFund
        THEN [e EXCEPT !.peakFund = cur]
        ELSE LET drawdown == <<e.peakFund - cur, e.peakFund>>
             IN  IF FracLess(e.maxDrawdown[1], e.maxDrawdown[2],
                             drawdown[1], drawdown[2])
                 THEN [e EXCEPT !.maxDrawdown = drawdown]
                 ELSE e

isDrawdownExceeded(e) ==
    IF e.maxDrawdownThreshold = Null THEN FALSE
    ELSE FracLess(e.maxDrawdownThreshold[1], e.maxDrawdownThreshold[2],
                  e.maxDrawdown[1], e.maxDrawdown[2])

\* closePositionAtEnd that leaves the position as it is.
closePositionAtEndKeepOpen(e, lastKline) == e

closePositionAtEnd(e, lastKline) ==
    IF e.positionType # "LONG" THEN e
    ELSE
    LET closePrice == lastKline.closePrice
        closeTimestamp == lastKline.closeTime
        e1 == [e EXCEPT
                 !.positionMaxPrice =
                     IF lastKline.highPrice > Val(@) THEN Some(lastKline.highPrice) ELSE @,
                 !.positionMinPrice =
                     IF lastKline.lowPrice < Val(@) THEN Some(lastKline.lowPrice) ELSE @]
        fee == (Val(e.positionAmt) * closePrice * NotionalUnit(e.stepSize) * FEE)
               \div RateDen
        fundingFee == calculateFundingFeeForClose(e, closePrice, closeTimestamp)
        pnl == (closePrice - Val(e.openPrice)) * Val(e.positionAmt)
                   * NotionalUnit(e.stepSize) - fee - fundingFee
        logged == IF e1.shouldLogResults
                  THEN logTradeResult(e1, closePrice, closeTimestamp, pnl)
                  ELSE e1
        paid == [logged EXCEPT !.fund = @ + Val(e.positionFund) + pnl]
    IN  resetPosition(updateTradeStats(paid, pnl, closeTimestamp))

\* getResult without the guards of the two averages.
getResultUnguarded(e) ==
    [ currentPositionType |-> e.positionType,
      fund |-> e.fund,
      leverage |-> e.leverage,
      totalTrades |-> e.totalTrades,
      winningTrades |-> e.winningTrades,
      losingTrades |-> e.losingTrades,
      winRate |-> <<e.winningTrades, e.totalTrades>>,
      totalPnl |-> e.totalPnl,
      totalReturn |-> <<e.fund - INITIAL_FUNDING * Scale, INITIAL_FUNDING * Scale>>,
      maxDrawdown |-> e.maxDrawdown,
      averageHoldTimeHours |-> <<e.totalHoldTimeMs, HOUR_MS * e.totalTrades>>,
      tradeRecords |-> e.tradeRecords ]

getResult(e) ==
    [ currentPositionType |-> e.positionType,
      fund |-> e.fund,
      leverage |-> e.leverage,
      totalTrades |-> e.totalTrades,
      winningTrades |-> e.winningTrades,
      losingTrades |-> e.losingTrades,
      winRate |-> IF e.totalTrades > 0
                  THEN <<e.winningTrades, e.totalTrades>> ELSE <<0, 1>>,
      totalPnl |-> e.totalPnl,
      totalReturn |-> <<e.fund - INITIAL_FUNDING * Scale, INITIAL_FUNDING * Scale>>,
      maxDrawdown |-> e.maxDrawdown,
      averageHoldTimeHours |->
          IF e.totalTrades > 0
          THEN <<e.totalHoldTimeMs, HOUR_MS * e.totalTrades>> ELSE <<0, 1>>,
      tradeRecords |-> e.tradeRecords ]

\* The read of a series at index i, the bar being processed.
ReadSeriesSameBar(atPrev, atCur) == atCur
\* this.rsiLongData[i - 1] / this.rsiShortData[i - 1]: of the entries of a
\* series at the indices i - 1 and i, the one the loop reads at bar i.
ReadSeries(atPrev, atCur) == atPrev

\* One iteration of the loop of run() on candle curKline; status "null" is
\* `return null`.
runBar(e, curKline, preRsiLong, preRsiShort) ==
    IF preRsiLong = Null \/ preRsiShort = Null THEN e
    ELSE
    LET e1 == IF e.positionType = "LONG"
              THEN [e EXCEPT
                      !.positionMaxPrice =
                          IF curKline.highPrice > Val(@)
                          THEN Some(curKline.highPrice) ELSE @,
                      !.positionMinPrice =
                          IF curKline.lowPrice < Val(@)
                          THEN Some(curKline.lowPrice) ELSE @]
              ELSE e
        signal == getSignal(e1, preRsiLong, preRsiShort)
        e2 == IF signal = "OPEN_LONG" THEN openLongPosition(e1, curKline) ELSE e1
        e3 == IF signal = "CLOSE_LONG" /\ e2.positionType = "LONG"
              THEN closeLongPosition(e2, curKline) ELSE e2
    IN  IF checkLiquidation(e3, curKline.lowPrice)
        THEN [e3 EXCEPT !.status = "null"]
        ELSE IF e3.positionType = "LONG" \/ e3.peakFund > INITIAL_FUNDING * Scale
        THEN LET e4 == updateDrawdown(e3, curKline.closePrice)
             IN  IF isDrawdownExceeded(e4)
                 THEN [e4 EXCEPT !.status = "null"]
                 ELSE e4
        ELSE IF e3.fund > e3.peakFund
        THEN [e3 EXCEPT !.peakFund = e3.fund]
        ELSE e3

\* The end of run(): closePositionAtEnd() and getResult().
runEnd(e, lastKline) ==
    [closePositionAtEnd(e, lastKline) EXCEPT !.status = "result"]

\* ------------------------------------------- the statistics of main
\* The sum of trade.closeTimestamp - trade.openTimestamp over the ledger.
RECURSIVE totalPositionTime(_)
totalPositionTime(tradeRecords) ==
    IF tradeRecords = <<>> THEN 0
    ELSE Head(tradeRecords).closeTimestamp - Head(tradeRecords).openTimestamp
         + totalPositionTime(Tail(tradeRecords))

\* exposure: the share of the backtest's time spent in a position, 0 when
\* the backtest spans no time. It is counted in percent: <<n, d>> stands
\* for (n / d) * 100.
exposure(tradeRecords, firstKline, lastKline) ==
    LET totalBacktestTime == lastKline.closeTime - firstKline.openTime
    IN  IF totalBacktestTime > 0
        THEN <<totalPositionTime(tradeRecords), totalBacktestTime>>
        ELSE <<0, 1>>

\* tradeRecords.filter((t) => t.pnl > 0) and .filter((t) => t.pnl < 0)
Profitable(t) == t.pnl > 0
Losing(t) == t.pnl < 0

\* .reduce((sum, t) => sum + t.pnl, 0)
RECURSIVE SumPnl(_)
SumPnl(tradeRecords) ==
    IF tradeRecords = <<>> THEN 0
    ELSE Head(tradeRecords).pnl + SumPnl(Tail(tradeRecords))

totalProfit(winningTrades, tradeRecords) ==
    IF winningTrades > 0 THEN SumPnl(SelectSeq(tradeRecords, Profitable)) ELSE 0

totalLoss(losingTrades, tradeRecords) ==
    IF losingTrades > 0 THEN Abs(SumPnl(SelectSeq(tradeRecords, Losing))) ELSE 0

\* The number Infinity, as the ratio 1 / 0.
Infinity == <<1, 0>>

\* profitFactor that knows no Infinity.
profitFactorNoInfinity(winningTrades, losingTrades, tradeRecords) ==
    IF totalLoss(losingTrades, tradeRecords) > 0
    THEN <<totalProfit(winningTrades, tradeRecords),
           totalLoss(losingTrades, tradeRecords)>>
    ELSE <<0, 1>>

profitFactor(winningTrades, losingTrades, tradeRecords) ==
    IF totalLoss(losingTrades, tradeRecords) > 0
    THEN <<totalProfit(winningTrades, tradeRecords),
           totalLoss(losingTrades, tradeRecords)>>
    ELSE IF totalProfit(winningTrades, tradeRecords) > 0 THEN Infinity
    ELSE <<0, 1>>

\* ------------------------------------------------------------- the candles
RSI_LONG_PERIOD == 2
RSI_SHORT_PERIOD == 1
\* this.startIndex
StartIndex == Max(RSI_LONG_PERIOD, RSI_SHORT_PERIOD) + 1
\* CONFIG.KLINE_START_TIME, a positive timestamp.
KLINE_START_TIME == 24 * HOUR_MS

\* getKlineData(): the candle at index idx of an hourly-aligned history.
Kline(idx, o, h, l, c) ==
    [ openPrice |-> o, highPrice |-> h, lowPrice |-> l, closePrice |-> c,
      openTime |-> KLINE_START_TIME + idx * KLINE_INTERVAL_MS,
      closeTime |-> KLINE_START_TIME + (idx + 1) * KLINE_INTERVAL_MS - 1 ]

Klines(idx) ==
    { Kline(idx, o, h, l, c) : o \in Prices, h \in Prices, l \in Prices, c \in Prices }

\* The candles an exchange can return: the low and high bound the bar.
ValidKline(k) ==
    /\ k.lowPrice <= k.openPrice /\ k.openPrice <= k.highPrice
    /\ k.lowPrice <= k.closePrice /\ k.closePrice <= k.highPrice

\* ------------------------------------------------------------------ state
VARIABLES
    \* one run() of each engine of Runs, on the same inputs
    configThreshold,  \* CONFIG.MAX_DRAWDOWN_THRESHOLD of the sweep
    engines,          \* the BacktestEngine objects of the runs compared
    enginePc,         \* "new", "loop" or "done": where run() is
    barIndex,         \* i of the loop of run(): the next candle's index
    kline,            \* cachedKlineData[i - 1]: the candle last processed
    rsiLongPre,       \* rsiLongData[i - 1]
    rsiShortPre,      \* rsiShortData[i - 1]
    \* the loop of getBestResult and the branch of main on its result
    searchResults,    \* what getBacktestResult returned, in iteration order
    bestResult,       \* the running best
    searchPc,         \* "loop", "returned", "reported" or "noresult"
    consoleLog,       \* what main printed for the outcome
    \* the asynchronous loads of getBestResult and main
    klineCache,       \* let klineCache = []
    closePricesCache, \* let closePricesCache = null
    rsiCache,         \* let rsiCache = new Map(): period -> series
    nodeCache,        \* the responses cached by getBinanceFuturesAPI
    calls,            \* the three calls of the pending Promise.all
    rsiValues,        \* `values` of getRsiCache: what computeRSI was given
    mainPc,           \* where the main entry point is
    simulations,      \* the inputs of the getBacktestResult calls made
    population,       \* how often each cache was loaded and assigned
    historyToNow,     \* CONFIG.IS_KLINE_START_TIME_TO_NOW of the process
    now,              \* `now` of getOriginalKlineData
    \* a call of computeRSI
    values,           \* the closes it is given
    periods,          \* the periods it is asked for
    results,          \* what it returned, null before it has
    \* a call of getRandomSettings
    config,           \* the five *_SETTING ranges and RANDOM_SAMPLE_NUMBER
    settings,         \* `settings`: what getSettings returned
    shuffled,         \* `shuffled`: the copy being shuffled
    shuffleIndex,     \* i of the shuffle loop
    sampled,          \* what getRandomSettings returned, null before it has
    settingsPc,       \* "idle", "shuffle" or "returned"
    \* the statistics main derives from the winning run
    detailedResult,   \* the counters and the ledger of the winning run
    report            \* the statistics derived, null before they are

engineVars ==
    <<configThreshold, engines, enginePc, barIndex, kline, rsiLongPre, rsiShortPre>>
searchVars == <<searchResults, bestResult, searchPc, consoleLog>>

loadVars ==
    <<klineCache, closePricesCache, rsiCache, nodeCache, calls, rsiValues,
      mainPc, simulations, population, historyToNow, now>>

rsiVars == <<values, periods, results>>

settingsVars ==
    <<config, settings, shuffled, shuffleIndex, sampled, settingsPc>>

reportVars == <<detailedResult, report>>

vars ==
    <<engineVars, searchVars, loadVars, rsiVars, settingsVars, reportVars>>

\* What the steps of one part leave alone: the other parts.
engineFrame == <<searchVars, loadVars, rsiVars, settingsVars, reportVars>>
searchFrame == <<engineVars, loadVars, rsiVars, settingsVars, reportVars>>
loadFrame ==
    <<engineVars, searchVars, rsiVars, settingsVars, reportVars, historyToNow,
      now>>
rsiFrame == <<engineVars, searchVars, loadVars, settingsVars, reportVars>>
settingsFrame == <<engineVars, searchVars, loadVars, rsiVars, reportVars>>
reportFrame == <<engineVars, searchVars, loadVars, rsiVars, settingsVars>>

\* getBacktestResult of the sweep (ledger off, CONFIG threshold), the same
\* run with the ledger on, and the detailed re-run of main (ledger on, no
\* threshold), all on the same candles, series, step size and parameters.
EngineInit ==
    /\ configThreshold \in Thresholds
    /\ \E stepSize \in StepSizes, leverage \in Leverages :
          engines =
            [r \in Runs |->
               BacktestEngine(stepSize, leverage, r # "sweep",
                              IF r = "detail" THEN Null ELSE configThreshold)]
    /\ enginePc = "new"
    /\ barIndex = StartIndex
    /\ kline = Kline(StartIndex - 1, 10, 10, 10, 10)
    /\ rsiLongPre = Null
    /\ rsiShortPre = Null

\* run() entered with empty series (no candle was fetched): return null.
RunEmpty ==
    /\ enginePc = "new"
    /\ engines' = [r \in Runs |-> [engines[r] EXCEPT !.status = "null"]]
    /\ enginePc' = "done"
    /\ UNCHANGED <<configThreshold, barIndex, kline, rsiLongPre, rsiShortPre>>

\* run() entered with series aligned with the candles: the entries at
\* startIndex - 1 are past both periods, so they are numbers.
RunBegin ==
    /\ enginePc = "new"
    /\ enginePc' = "loop"
    /\ rsiLongPre' \in RsiLongValues
    /\ rsiShortPre' \in RsiShortValues
    /\ UNCHANGED <<configThreshold, engines, barIndex, kline>>

\* One iteration of the loop, in every run that has not returned.
RunLoop ==
    /\ enginePc = "loop"
    /\ barIndex - StartIndex < MaxBars
    /\ \E r \in Runs : engines[r].status = "running"
    /\ \E k \in Klines(barIndex), rl \in RsiLongValues, rs \in RsiShortValues :
          /\ ValidKline(k)
          /\ kline' = k
          /\ rsiLongPre' = rl
          /\ rsiShortPre' = rs
          /\ engines' =
               [r \in Runs |->
                  IF engines[r].status = "running"
                  THEN runBar(engines[r], k, ReadSeries(rsiLongPre, rl),
                              ReadSeries(rsiShortPre, rs))
                  ELSE engines[r]]
    /\ barIndex' = barIndex + 1
    /\ UNCHANGED <<configThreshold, enginePc>>

\* i reached dataLength: the loop ends, closePositionAtEnd, getResult.
RunEnd ==
    /\ enginePc = "loop"
    /\ engines' =
         [r \in Runs |->
            IF engines[r].status = "running"
            THEN runEnd(engines[r], kline) ELSE engines[r]]
    /\ enginePc' = "done"
    /\ UNCHANGED <<configThreshold, barIndex, kline, rsiLongPre, rsiShortPre>>

EngineNext ==
    \/ RunEmpty /\ UNCHANGED engineFrame
    \/ RunBegin /\ UNCHANGED engineFrame
    \/ RunLoop /\ UNCHANGED engineFrame
    \/ RunEnd /\ UNCHANGED engineFrame

\* The candles of a symbol whose price is of the order of the fund and
\* above it: flat bars at 100 or 250, against INITIAL_FUNDING 100.
HighPrices == {100, 250}
HighKlines(idx) == { Kline(idx, p, p, p, p) : p \in HighPrices }

\* One iteration of the loop on such a candle, in every run that has not
\* returned.
RunLoopHighPrices ==
    /\ enginePc = "loop"
    /\ barIndex - StartIndex < MaxBars
    /\ \E r \in Runs : engines[r].status = "running"
    /\ \E k \in HighKlines(barIndex), rl \in RsiLongValues,
          rs \in RsiShortValues :
          /\ kline' = k
          /\ rsiLongPre' = rl
          /\ rsiShortPre' = rs
          /\ engines' =
               [r \in Runs |->
                  IF engines[r].status = "running"
                  THEN runBar(engines[r], k, ReadSeries(rsiLongPre, rl),
                              ReadSeries(rsiShortPre, rs))
                  ELSE engines[r]]
    /\ barIndex' = barIndex + 1
    /\ UNCHANGED <<configThreshold, enginePc>>

HighPriceNext ==
    \/ RunBegin /\ UNCHANGED engineFrame
    \/ RunLoopHighPrices /\ UNCHANGED engineFrame
    \/ RunEnd /\ UNCHANGED engineFrame

\* The engine variables of a specification that runs no engine.
EngineParked ==
    /\ configThreshold = <<1, 2>>
    /\ engines = [r \in Runs |-> BacktestEngine(<<"1">>, 1, FALSE, Null)]
    /\ enginePc = "new"
    /\ barIndex = StartIndex
    /\ kline = Kline(StartIndex - 1, 10, 10, 10, 10)
    /\ rsiLongPre = Null
    /\ rsiShortPre = Null

\* ------------------------------------------------------- the optimizer loop
\* The funds a run can end with in the model, in currency units: a fund
\* lost beyond the margin, a fund of 0, and funds below, at and above the
\* initial funding.
ResultFunds == {-50, 0, 50, 100, 150}

\* What getBacktestResult returns for the candidate at position k: null,
\* or a result with the fund and totalReturn of getResult.
BacktestResult(k, fund) ==
    [ setting |-> Some(k),
      fund |-> fund * Scale,
      totalReturn |-> <<fund * Scale - INITIAL_FUNDING * Scale,
                        INITIAL_FUNDING * Scale>> ]

\* let bestResult = { fund: 0, totalReturn: -1 }
NoResult == [ setting |-> Null, fund |-> 0, totalReturn |-> <<-1, 1>> ]

\* x > y for two returns; those of getResult share their denominator.
ReturnGreater(x, y) ==
    IF x[2] = y[2] THEN x[1] > y[1] ELSE x[1] * y[2] > y[1] * x[2]

\* The comparison with >= for >: a tie would replace the running best.
ReplacesOrTies(result, best) ==
    /\ result # Null
    /\ ~ReturnGreater(best.totalReturn, Val(result).totalReturn)
\* result && result.totalReturn > bestResult.totalReturn
Replaces(result, best) ==
    /\ result # Null
    /\ ReturnGreater(Val(result).totalReturn, best.totalReturn)

SearchInit ==
    /\ searchResults = <<>>
    /\ bestResult = NoResult
    /\ searchPc = "loop"
    /\ consoleLog = Null

\* One iteration of `for (const setting of randomSettings)`.
SearchStep ==
    /\ searchPc = "loop"
    /\ Len(searchResults) < MaxCandidates
    /\ \E result \in {Null} \cup
                     { Some(BacktestResult(Len(searchResults) + 1, f)) :
                         f \in ResultFunds } :
          /\ searchResults' = Append(searchResults, result)
          /\ bestResult' = IF Replaces(result, bestResult)
                           THEN Val(result) ELSE bestResult
    /\ UNCHANGED <<searchPc, consoleLog>>

\* The candidates are exhausted: return bestResult.
SearchReturn ==
    /\ searchPc = "loop"
    /\ searchPc' = "returned"
    /\ UNCHANGED <<searchResults, bestResult, consoleLog>>

\* main: if (bestResult.fund > 0) the report is built and printed ...
MainReport ==
    /\ searchPc = "returned"
    /\ bestResult.fund > 0
    /\ searchPc' = "reported"
    /\ consoleLog' = Some("report")
    /\ UNCHANGED <<searchResults, bestResult>>

\* ... else console.log("No valid result found").
MainNoResult ==
    /\ searchPc = "returned"
    /\ ~(bestResult.fund > 0)
    /\ searchPc' = "noresult"
    /\ consoleLog' = Some("No valid result found")
    /\ UNCHANGED <<searchResults, bestResult>>

SearchNext ==
    \/ SearchStep /\ UNCHANGED searchFrame
    \/ SearchReturn /\ UNCHANGED searchFrame
    \/ MainReport /\ UNCHANGED searchFrame
    \/ MainNoResult /\ UNCHANGED searchFrame

\* ------------------------------------------------------ the cached loads
\* retry(fn, retries = 3, delay = 1000)
RETRIES == 3
\* CONFIG.SYMBOL
SYMBOL == "BTCUSDT"
\* CONFIG.IS_KLINE_START_TIME_TO_NOW
IS_KLINE_START_TIME_TO_NOW == TRUE
\* CONFIG.RSI_LONG_PERIOD_SETTING and CONFIG.RSI_SHORT_PERIOD_SETTING
RSI_LONG_PERIOD_SETTING == [min |-> RSI_LONG_PERIOD, max |-> RSI_LONG_PERIOD, step |-> 1]
RSI_SHORT_PERIOD_SETTING == [min |-> RSI_SHORT_PERIOD, max |-> RSI_SHORT_PERIOD, step |-> 1]

\* A record of the klines endpoint: [openTime, open, high, low, close,
\* volume, closeTime], of a candle that opened at 10 and trades at close.
RawKline(idx, close) ==
    << KLINE_START_TIME + idx * KLINE_INTERVAL_MS,
       10, Max(10, close), Min(10, close), close, 0,
       KLINE_START_TIME + (idx + 1) * KLINE_INTERVAL_MS - 1 >>

\* Date.now() at the start of getOriginalKlineData: inside the candle of
\* index KLINE_LIMIT, so that the history takes two pages.
NowTime == KLINE_START_TIME + KLINE_LIMIT * KLINE_INTERVAL_MS + HOUR_MS

\* The closed candles of the history, which no response changes.
ClosedKlines == [idx \in 1..KLINE_LIMIT |-> RawKline(idx - 1, 10)]

\* What the Candle Store holds when it answers a request: nothing, or the
\* closed candles followed by the forming one, whose close moves between
\* two requests, or by a candle that closed and the next forming one.
StoreSnapshots ==
    { <<>>,
      Append(ClosedKlines, RawKline(KLINE_LIMIT, 10)),
      Append(ClosedKlines, RawKline(KLINE_LIMIT, 25)),
      Append(Append(ClosedKlines, RawKline(KLINE_LIMIT, 25)),
             RawKline(KLINE_LIMIT + 1, 10)) }

\* The answer to GET /fapi/v1/klines?startTime=..&limit=KLINE_LIMIT.
KlinePage(snapshot, startTime) ==
    LET from == SelectSeq(snapshot, LAMBDA k : k[1] >= startTime)
    IN  SubSeq(from, 1, Min(Len(from), KLINE_LIMIT))

\* The answers to GET /fapi/v1/exchangeInfo: the symbol listed with its
\* LOT_SIZE filter, the symbol not listed, the symbol without the filter.
SymbolInfo(symbol, filterTypes) ==
    [ symbol |-> symbol,
      filters |-> [k \in 1..Len(filterTypes) |->
                     [ filterType |-> filterTypes[k],
                       stepSize |-> IF filterTypes[k] = "LOT_SIZE"
                                    THEN Some(<<"1">>) ELSE Null ]] ]
ExchangeInfos ==
    { [symbols |-> << SymbolInfo("ETHUSDT", <<"LOT_SIZE">>),
                      SymbolInfo(SYMBOL, <<"PRICE_FILTER", "LOT_SIZE">>) >>],
      [symbols |-> << SymbolInfo("ETHUSDT", <<"LOT_SIZE">>) >>],
      [symbols |-> << SymbolInfo(SYMBOL, <<"PRICE_FILTER">>) >>] }

\* symbols.find((item) => item.symbol === CONFIG.SYMBOL): the index of the
\* first match, 0 for undefined.
FindSymbol(symbols) ==
    IF \E k \in 1..Len(symbols) : symbols[k].symbol = SYMBOL
    THEN CHOOSE k \in 1..Len(symbols) :
            /\ symbols[k].symbol = SYMBOL
            /\ \A j \in 1..(k - 1) : symbols[j].symbol # SYMBOL
    ELSE 0
\* filters.find((filter) => filter.filterType === "LOT_SIZE"), likewise.
FindLotSize(filters) ==
    IF \E k \in 1..Len(filters) : filters[k].filterType = "LOT_SIZE"
    THEN CHOOSE k \in 1..Len(filters) :
            /\ filters[k].filterType = "LOT_SIZE"
            /\ \A j \in 1..(k - 1) : filters[j].filterType # "LOT_SIZE"
    ELSE 0

\* nodeCache.has / get / set on the entries that have not expired.
CacheHas(cache, key) == \E e \in cache : e.key = key
CacheGet(cache, key) == (CHOOSE e \in cache : e.key = key).value
CacheSet(cache, key, value) ==
    { e \in cache : e.key # key } \cup { [key |-> key, value |-> value] }
\* path + "/" + JSON.stringify(params): only startTime varies.
KlineKey(startTime) == <<"/fapi/v1/klines", startTime>>
ExchangeInfoKey == <<"/fapi/v1/exchangeInfo", 0>>

\* The test with retries for retries - 1: one attempt more.
RetryExhaustedLate(i) == i = RETRIES
\* if (i === retries - 1) throw err
RetryExhausted(i) == i = RETRIES - 1

\* getKlineData: the records of the candles.
getKlineData(originalKlineData) ==
    [ k \in 1..Len(originalKlineData) |->
        [ openPrice |-> originalKlineData[k][2],
          highPrice |-> originalKlineData[k][3],
          lowPrice |-> originalKlineData[k][4],
          closePrice |-> originalKlineData[k][5],
          openTime |-> originalKlineData[k][1],
          closeTime |-> originalKlineData[k][7] ] ]

\* The loop that fills closePricesCache.
ClosePrices(klineData) == [k \in 1..Len(klineData) |-> klineData[k].closePrice]

\* computeRSI for one period; closes[k] is the close at index k - 1. The
\* smoothed gain and loss are the fractions g / d and l / d.
RECURSIVE Smoothed(_, _, _)
Smoothed(closes, period, i) ==
    LET change(k) == closes[k + 1] - closes[k]
        Sum(S) == LET RECURSIVE Add(_)
                      Add(T) == IF T = {} THEN 0
                                ELSE LET k == CHOOSE k \in T : TRUE
                                     IN  S[k] + Add(T \ {k})
                  IN  Add(DOMAIN S)
    IN  IF i = period - 1
        THEN [ g |-> Sum([k \in 1..period |-> Max(change(k), 0)]),
               l |-> Sum([k \in 1..period |-> Max(-change(k), 0)]),
               d |-> 1 ]
        ELSE LET prev == Smoothed(closes, period, i - 1)
                 maxChange == Max(change(i), 0)
                 maxNegChange == Max(-change(i), 0)
             IN  [ g |-> prev.g * (period - 1) + maxChange * prev.d,
                   l |-> prev.l * (period - 1) + maxNegChange * prev.d,
                   d |-> prev.d * period ]

\* The value with the test of the gain first: 0 for a flat sequence.
RsiAtGainFirst(closes, period, i) ==
    LET s == Smoothed(closes, period, i)
    IN  IF s.g = 0 THEN <<0, 1>>
        ELSE LET g == GCD(100 * s.g, s.g + s.l)
             IN  <<(100 * s.g) \div g, (s.g + s.l) \div g>>
\* result[i]: 100 if loss === 0, else 100 - 100 / (1 + gain / loss), which
\* is 100 * gain / (gain + loss).
RsiAt(closes, period, i) ==
    LET s == Smoothed(closes, period, i)
    IN  IF s.l = 0 THEN <<100, 1>>
        ELSE LET g == GCD(100 * s.g, s.g + s.l)
             IN  <<(100 * s.g) \div g, (s.g + s.l) \div g>>

\* The series with the main loop started at period + 1.
computeRSILate(closes, period) ==
    [ k \in 1..Len(closes) |->
        IF Len(closes) < 2 \/ Len(closes) < period + 1 \/ k - 1 < period + 1
        THEN Null
        ELSE Some(RsiAt(closes, period, k - 1)) ]
\* computeRSI for one period: the series, which holds the entry of index i
\* at position i + 1.
computeRSI(closes, period) ==
    [ k \in 1..Len(closes) |->
        IF Len(closes) < 2 \/ Len(closes) < period + 1 \/ k - 1 < period
        THEN Null
        ELSE Some(RsiAt(closes, period, k - 1)) ]

\* The periods of getRsiCache.
PeriodSet ==
    { p \in RSI_LONG_PERIOD_SETTING.min..RSI_LONG_PERIOD_SETTING.max :
        (p - RSI_LONG_PERIOD_SETTING.min) % RSI_LONG_PERIOD_SETTING.step = 0 }
    \cup
    { p \in RSI_SHORT_PERIOD_SETTING.min..RSI_SHORT_PERIOD_SETTING.max :
        (p - RSI_SHORT_PERIOD_SETTING.min) % RSI_SHORT_PERIOD_SETTING.step = 0 }

\* rsiCache after `for (const period of periods) rsiCache.set(...)`.
RsiSeries(closes) == [p \in PeriodSet |-> computeRSI(closes, p)]

\* The calls of a Promise.all, in the order they are started.
Calls == {"getKlineCache", "getRsiCache", "getStepSize"}
KlineCalls == {"getKlineCache", "getRsiCache"}

Call(pc, i, startTime, data, result) ==
    [ pc |-> pc, i |-> i, startTime |-> startTime, data |-> data,
      result |-> result ]
IdleCall == Call("idle", 0, 0, <<>>, Null)
\* A request was sent: the call waits for attempt 0 of it.
Fetching(startTime, data) == Call("fetching", 0, startTime, data, Null)

\* getOriginalKlineData from the arrival of the page asked at startTime:
\* the page is pushed, startTime moves past its last record, and the next
\* pages are taken from nodeCache as long as it has them. The result is the
\* call waiting for a response, the call looping on a cached empty page
\* until the entry expires, or the call with the history complete.
RECURSIVE PageLoop(_, _, _, _)
PageLoop(startTime, originalKlineData, klineData, cache) ==
    LET pushed == originalKlineData \o klineData
        next == IF Len(klineData) > 0
                THEN klineData[Len(klineData)][7] + 1 ELSE startTime
    IN  IF ~historyToNow \/ ~(next < now)
        THEN Call("loaded", 0, next, pushed, Null)
        ELSE IF ~CacheHas(cache, KlineKey(next))
        THEN Fetching(next, pushed)
        ELSE IF next = startTime
        THEN Call("spinning", 0, next, pushed, Null)
        ELSE PageLoop(next, pushed, CacheGet(cache, KlineKey(next)), cache)

\* getStepSize from the arrival of the exchange information: the step of
\* the LOT_SIZE filter of the symbol, or the TypeError of reading a property
\* of undefined.
StepSizeOf(exchangeInformation) ==
    LET s == FindSymbol(exchangeInformation.symbols)
        filters == exchangeInformation.symbols[s].filters
        f == IF s = 0 THEN 0 ELSE FindLotSize(filters)
    IN  IF s = 0 \/ f = 0 THEN Null ELSE filters[f].stepSize

\* The caches of a process that has loaded nothing.
NothingLoaded ==
    /\ klineCache = <<>>
    /\ closePricesCache = Null
    /\ rsiCache = Null
    /\ nodeCache = {}
    /\ calls = [c \in Calls |-> IdleCall]
    /\ rsiValues = Null
    /\ mainPc = "start"
    /\ simulations = {}
    /\ population = [fetches |-> 0, klineCache |-> 0, closePricesCache |-> 0]

LoadInit ==
    /\ NothingLoaded
    /\ historyToNow = IS_KLINE_START_TIME_TO_NOW
    /\ now = NowTime

\* getKlineCache up to its first await.
BeginKlineLoad ==
    IF klineCache = <<>>
    THEN Fetching(KLINE_START_TIME, <<>>)
    ELSE Call("done", 0, 0, <<>>, Some(klineCache))
\* getRsiCache up to its first await: rsiCache and closePricesCache are
\* filled by the same step, so an empty rsiCache comes with no closes.
BeginRsiLoad ==
    IF rsiCache = Null
    THEN BeginKlineLoad
    ELSE Call("done", 0, 0, <<>>, rsiCache)
\* getStepSize up to its first await.
BeginStepLoad ==
    IF CacheHas(nodeCache, ExchangeInfoKey)
    THEN LET info == CacheGet(nodeCache, ExchangeInfoKey)
         IN  Call("done", 0, 0, Some(info), StepSizeOf(info))
    ELSE Call("fetching", 0, 0, Null, Null)

BeginLoads ==
    /\ calls' = [c \in Calls |->
                   IF c = "getKlineCache" THEN BeginKlineLoad
                   ELSE IF c = "getRsiCache" THEN BeginRsiLoad
                   ELSE BeginStepLoad]
    /\ population' =
         [population EXCEPT
            !.fetches = @ + Cardinality({c \in KlineCalls : calls'[c].pc = "fetching"})]

\* getBestResult: the three loads start in the same synchronous stretch.
StartLoads ==
    /\ mainPc = "start"
    /\ mainPc' = "loading"
    /\ BeginLoads
    /\ UNCHANGED <<klineCache, closePricesCache, rsiCache, nodeCache,
                   rsiValues, simulations>>

\* The event loop is free: no call loops on a cached empty page.
Awaiting == mainPc \in {"loading", "reloading"} /\ \A c \in Calls : calls[c].pc # "spinning"

\* A page of klines arrives for call c: it is cached, and the call runs on
\* to its next await. When the history is complete getKlineCache assigns
\* klineCache and closePricesCache; in getRsiCache, getClosePricesCache
\* assigns closePricesCache again and the series are computed from it.
KlineResponse(c) ==
    /\ Awaiting
    /\ c \in KlineCalls
    /\ calls[c].pc = "fetching"
    /\ \E snapshot \in StoreSnapshots :
         LET page == KlinePage(snapshot, calls[c].startTime)
             cache == CacheSet(nodeCache, KlineKey(calls[c].startTime), page)
             loop == PageLoop(calls[c].startTime, calls[c].data, page, cache)
             klineData == getKlineData(loop.data)
         IN  /\ nodeCache' = cache
             /\ IF loop.pc # "loaded"
                THEN /\ calls' = [calls EXCEPT ![c] = loop]
                     /\ UNCHANGED <<klineCache, closePricesCache, rsiCache,
                                    rsiValues, population>>
                ELSE /\ klineCache' = klineData
                     /\ closePricesCache' = Some(ClosePrices(klineData))
                     /\ IF c = "getRsiCache"
                        THEN /\ rsiValues' = closePricesCache'
                             /\ rsiCache' = Some(RsiSeries(Val(rsiValues')))
                             /\ calls' = [calls EXCEPT ![c] =
                                            Call("done", 0, loop.startTime,
                                                 loop.data, rsiCache')]
                             /\ population' =
                                  [population EXCEPT !.klineCache = @ + 1,
                                                     !.closePricesCache = @ + 2]
                        ELSE /\ calls' = [calls EXCEPT ![c] =
                                            Call("done", 0, loop.startTime,
                                                 loop.data, Some(klineData))]
                             /\ population' =
                                  [population EXCEPT !.klineCache = @ + 1,
                                                     !.closePricesCache = @ + 1]
                             /\ UNCHANGED <<rsiCache, rsiValues>>
    /\ UNCHANGED <<mainPc, simulations>>

\* The exchange information arrives: it is cached, and getStepSize returns
\* the step or throws.
StepResponse ==
    /\ Awaiting
    /\ calls["getStepSize"].pc = "fetching"
    /\ \E info \in ExchangeInfos :
         /\ nodeCache' = CacheSet(nodeCache, ExchangeInfoKey, info)
         /\ IF StepSizeOf(info) = Null
            THEN /\ calls' = [calls EXCEPT !["getStepSize"] =
                                Call("threw", 0, 0, Some(info), Null)]
                 /\ mainPc' = "fatal"
            ELSE /\ calls' = [calls EXCEPT !["getStepSize"] =
                                Call("done", 0, 0, Some(info), StepSizeOf(info))]
                 /\ UNCHANGED mainPc
    /\ UNCHANGED <<klineCache, closePricesCache, rsiCache, rsiValues,
                   simulations, population>>

\* An attempt of call c fails (no response, a status that is not ok, a
\* body that is not JSON): retry waits and tries again, or rethrows.
RequestFails(c) ==
    /\ Awaiting
    /\ calls[c].pc = "fetching"
    /\ IF RetryExhausted(calls[c].i)
       THEN /\ calls' = [calls EXCEPT ![c].pc = "failed"]
            /\ mainPc' = "fatal"
       ELSE /\ calls' = [calls EXCEPT ![c].i = @ + 1]
            /\ UNCHANGED mainPc
    /\ UNCHANGED <<klineCache, closePricesCache, rsiCache, nodeCache,
                   rsiValues, simulations, population>>

\* CACHE_TTL passes for an entry: nodeCache.has deletes it; a call that
\* loops on it sends the request again.
Expire ==
    /\ mainPc \in {"loading", "won", "reloading"}
    /\ \E e \in nodeCache :
         /\ nodeCache' = nodeCache \ {e}
         /\ calls' = [c \in Calls |->
                        IF calls[c].pc = "spinning"
                           /\ e.key = KlineKey(calls[c].startTime)
                        THEN Fetching(calls[c].startTime, calls[c].data)
                        ELSE calls[c]]
    /\ UNCHANGED <<klineCache, closePricesCache, rsiCache, rsiValues,
                   mainPc, simulations, population>>

AllLoaded == \A c \in Calls : calls[c].pc = "done"

\* What getBacktestResult is given.
Simulation(run) ==
    [ run |-> run,
      cachedKlineData |-> Val(calls["getKlineCache"].result),
      cachedRsiData |-> Val(calls["getRsiCache"].result),
      stepSize |-> Val(calls["getStepSize"].result),
      values |-> Val(rsiValues) ]

\* getBestResult after its Promise.all: the sweep, which finds a result
\* with a positive fund or none.
Sweep ==
    /\ mainPc = "loading"
    /\ AllLoaded
    /\ simulations' = simulations \cup {Simulation("sweep")}
    /\ mainPc' \in {"won", "noresult"}
    /\ UNCHANGED <<klineCache, closePricesCache, rsiCache, nodeCache, calls,
                   rsiValues, population>>

\* main, bestResult.fund > 0: the second Promise.all.
StartReloads ==
    /\ mainPc = "won"
    /\ mainPc' = "reloading"
    /\ BeginLoads
    /\ UNCHANGED <<klineCache, closePricesCache, rsiCache, nodeCache,
                   rsiValues, simulations>>

\* main: the detailed re-run of the winner.
Rerun ==
    /\ mainPc = "reloading"
    /\ AllLoaded
    /\ simulations' = simulations \cup {Simulation("rerun")}
    /\ mainPc' = "done"
    /\ UNCHANGED <<klineCache, closePricesCache, rsiCache, nodeCache, calls,
                   rsiValues, population>>

LoadNext ==
    \/ StartLoads /\ UNCHANGED loadFrame
    \/ \E c \in KlineCalls : KlineResponse(c) /\ UNCHANGED loadFrame
    \/ StepResponse /\ UNCHANGED loadFrame
    \/ \E c \in Calls : RequestFails(c) /\ UNCHANGED loadFrame
    \/ Expire /\ UNCHANGED loadFrame
    \/ Sweep /\ UNCHANGED loadFrame
    \/ StartReloads /\ UNCHANGED loadFrame
    \/ Rerun /\ UNCHANGED loadFrame


\* ---------------------------------------------- the paginated fetch alone
\* The wall-clock times at which getOriginalKlineData is entered in the
\* model: inside the candle of index 1 and inside the last candle the
\* Candle Store can hold.
NowTimes ==
    { KLINE_START_TIME + KLINE_INTERVAL_MS + HOUR_MS,
      KLINE_START_TIME + (MaxKlines - 1) * KLINE_INTERVAL_MS + HOUR_MS }

\* The answers of the Candle Store to a request of the candles from
\* startTime on: at most KLINE_LIMIT consecutive candles, none of which
\* opens before startTime; the empty answer included.
StorePages(startTime) ==
    {<<>>} \cup
    UNION { { [k \in 1..n |-> RawKline(first + k - 1, 10)] :
                n \in 0..Min(KLINE_LIMIT, MaxKlines - first) } :
            first \in { f \in 0..(MaxKlines - 1) :
                          KLINE_START_TIME + f * KLINE_INTERVAL_MS >= startTime } }

PageInit ==
    /\ NothingLoaded
    /\ historyToNow \in BOOLEAN
    /\ now \in NowTimes

\* getOriginalKlineData is called: the first request is sent.
PageStart ==
    /\ calls["getKlineCache"].pc = "idle"
    /\ calls' = [calls EXCEPT !["getKlineCache"] = Fetching(KLINE_START_TIME, <<>>)]
    /\ UNCHANGED nodeCache

\* A page arrives: it is cached and the loop goes on to its next await, or
\* returns.
PageResponse ==
    /\ calls["getKlineCache"].pc = "fetching"
    /\ \E page \in StorePages(calls["getKlineCache"].startTime) :
         LET c == calls["getKlineCache"]
             cache == CacheSet(nodeCache, KlineKey(c.startTime), page)
         IN  /\ nodeCache' = cache
             /\ calls' = [calls EXCEPT !["getKlineCache"] =
                            PageLoop(c.startTime, c.data, page, cache)]

\* CACHE_TTL passes for an entry.
PageExpire ==
    \E e \in nodeCache :
        /\ nodeCache' = nodeCache \ {e}
        /\ calls' = [c \in Calls |->
                       IF calls[c].pc = "spinning"
                          /\ e.key = KlineKey(calls[c].startTime)
                       THEN Fetching(calls[c].startTime, calls[c].data)
                       ELSE calls[c]]

pageFrame ==
    <<engineVars, searchVars, rsiVars, settingsVars, reportVars, klineCache, closePricesCache, rsiCache,
      rsiValues, mainPc, simulations, population, historyToNow, now>>

PageNext ==
    \/ PageStart /\ UNCHANGED pageFrame
    \/ PageResponse /\ UNCHANGED pageFrame
    \/ PageExpire /\ UNCHANGED pageFrame

\* ------------------------------------------------ a call of computeRSI
\* The closes of the model's candles when the oscillator is studied alone.
ClosesOfModel == {10, 20, 25}
CloseSequences == UNION { [1..n -> ClosesOfModel] : n \in 0..MaxCloses }

\* No call of computeRSI is studied.
RsiIdle ==
    /\ values = <<>>
    /\ periods = {}
    /\ results = Null

\* computeRSI is called with any closes and any set of positive periods.
RsiInit ==
    /\ values \in CloseSequences
    /\ periods \in SUBSET (1..MaxPeriod)
    /\ results = Null

\* computeRSI(values, periods) returns results[period] for every period.
ComputeRSI ==
    /\ results = Null
    /\ results' = Some([p \in periods |-> computeRSI(values, p)])
    /\ UNCHANGED <<values, periods>>

RsiNext ==
    \/ ComputeRSI /\ UNCHANGED rsiFrame

\* ------------------------------------------ the parameter combinations
\* Range values are counted in tenths, so that toFixed(0) has something to
\* round; the configured ranges are integer-valued.
Unit == 10

\* A range { min, max, step } of whole numbers.
Range(min, max, step) ==
    [min |-> min * Unit, max |-> max * Unit, step |-> step * Unit]

\* The ranges a dimension is configured with in the model: one value, two
\* values, three values, two values with step 2, and an empty range.
SettingRanges ==
    {Range(1, 1, 1), Range(1, 2, 1), Range(1, 3, 1), Range(1, 3, 2),
     Range(2, 1, 1)}

\* RANDOM_SAMPLE_NUMBER: a number or null.
SampleNumbers == {Null} \cup {Some(k) : k \in 0..MaxSample}

\* Number((number + addNumber).toFixed(digit)), digit 0 or 1.
getAddedNumber(number, addNumber, digit) ==
    RoundHalfAway((number + addNumber) * Pow10(digit), Unit)
        * (Unit \div Pow10(digit))

\* The values `for (x = min; x <= max; x = getAddedNumber(x, step, 0))`
\* visits from x on, in order.
RECURSIVE ForLoop(_, _)
ForLoop(x, setting) ==
    IF x <= setting.max
    THEN <<x>> \o ForLoop(getAddedNumber(x, setting.step, 0), setting)
    ELSE <<>>

\* The pushes of a loop whose iterations push the sequences of `pushes`.
RECURSIVE Pushed(_)
Pushed(pushes) ==
    IF pushes = <<>> THEN <<>> ELSE Head(pushes) \o Pushed(Tail(pushes))

\* getSettings with the nesting turned around: leverage innermost.
getSettingsLeverageInnermost(c) ==
    LET leverages == ForLoop(c.LEVERAGE_SETTING.min, c.LEVERAGE_SETTING)
        longPeriods ==
            ForLoop(c.RSI_LONG_PERIOD_SETTING.min, c.RSI_LONG_PERIOD_SETTING)
        shortPeriods ==
            ForLoop(c.RSI_SHORT_PERIOD_SETTING.min, c.RSI_SHORT_PERIOD_SETTING)
        longLevels ==
            ForLoop(c.RSI_LONG_LEVEL_SETTING.min, c.RSI_LONG_LEVEL_SETTING)
        shortLevels ==
            ForLoop(c.RSI_SHORT_LEVEL_SETTING.min, c.RSI_SHORT_LEVEL_SETTING)
    IN  Pushed([b \in 1..Len(longPeriods) |->
        Pushed([d \in 1..Len(shortPeriods) |->
        Pushed([e \in 1..Len(longLevels) |->
        Pushed([f \in 1..Len(shortLevels) |->
        Pushed([a \in 1..Len(leverages) |->
            <<[rsiLongPeriod |-> longPeriods[b],
               rsiShortPeriod |-> shortPeriods[d],
               rsiLongLevel |-> longLevels[e],
               rsiShortLevel |-> shortLevels[f],
               leverage |-> leverages[a]]>>])])])])])

\* getSettings(): five nested loops, leverage outermost, one push per
\* innermost iteration.
getSettings(c) ==
    LET leverages == ForLoop(c.LEVERAGE_SETTING.min, c.LEVERAGE_SETTING)
        longPeriods ==
            ForLoop(c.RSI_LONG_PERIOD_SETTING.min, c.RSI_LONG_PERIOD_SETTING)
        shortPeriods ==
            ForLoop(c.RSI_SHORT_PERIOD_SETTING.min, c.RSI_SHORT_PERIOD_SETTING)
        longLevels ==
            ForLoop(c.RSI_LONG_LEVEL_SETTING.min, c.RSI_LONG_LEVEL_SETTING)
        shortLevels ==
            ForLoop(c.RSI_SHORT_LEVEL_SETTING.min, c.RSI_SHORT_LEVEL_SETTING)
    IN  Pushed([a \in 1..Len(leverages) |->
        Pushed([b \in 1..Len(longPeriods) |->
        Pushed([d \in 1..Len(shortPeriods) |->
        Pushed([e \in 1..Len(longLevels) |->
        Pushed([f \in 1..Len(shortLevels) |->
            <<[rsiLongPeriod |-> longPeriods[b],
               rsiShortPeriod |-> shortPeriods[d],
               rsiLongLevel |-> longLevels[e],
               rsiShortLevel |-> shortLevels[f],
               leverage |-> leverages[a]]>>])])])])])

\* How many iterations the loop over a range makes.
RangeSize(setting) == Len(ForLoop(setting.min, setting))

\* The configurations of the model: any ranges whose combinations number
\* at most MaxSpace, and any sample number.
Configs ==
    { c \in [LEVERAGE_SETTING : SettingRanges,
             RSI_LONG_PERIOD_SETTING : SettingRanges,
             RSI_SHORT_PERIOD_SETTING : SettingRanges,
             RSI_LONG_LEVEL_SETTING : SettingRanges,
             RSI_SHORT_LEVEL_SETTING : SettingRanges,
             RANDOM_SAMPLE_NUMBER : SampleNumbers] :
        RangeSize(c.LEVERAGE_SETTING) * RangeSize(c.RSI_LONG_PERIOD_SETTING)
          * RangeSize(c.RSI_SHORT_PERIOD_SETTING)
          * RangeSize(c.RSI_LONG_LEVEL_SETTING)
          * RangeSize(c.RSI_SHORT_LEVEL_SETTING) <= MaxSpace }

\* `if (CONFIG.RANDOM_SAMPLE_NUMBER)`: neither null nor 0.
Truthy(number) == number # Null /\ Val(number) # 0

\* [shuffled[i], shuffled[j]] = [shuffled[j], shuffled[i]], i and j 0-based.
Swapped(array, i, j) ==
    [k \in 1..Len(array) |->
       IF k = i + 1 THEN array[j + 1]
       ELSE IF k = j + 1 THEN array[i + 1]
       ELSE array[k]]

\* Array.prototype.slice(0, end) for 0 <= end.
Slice(array, end) == SubSeq(array, 1, Min(end, Len(array)))

\* getRandomSettings has not been called.
NotSampled ==
    /\ settings = <<>>
    /\ shuffled = <<>>
    /\ shuffleIndex = 0
    /\ sampled = Null
    /\ settingsPc = "idle"

\* No call of getRandomSettings is studied.
SettingsIdle ==
    /\ config = [LEVERAGE_SETTING |-> Range(1, 1, 1),
                 RSI_LONG_PERIOD_SETTING |-> Range(1, 1, 1),
                 RSI_SHORT_PERIOD_SETTING |-> Range(1, 1, 1),
                 RSI_LONG_LEVEL_SETTING |-> Range(1, 1, 1),
                 RSI_SHORT_LEVEL_SETTING |-> Range(1, 1, 1),
                 RANDOM_SAMPLE_NUMBER |-> Null]
    /\ NotSampled

\* getRandomSettings is called under any configuration of the model.
SettingsInit ==
    /\ config \in Configs
    /\ NotSampled

\* getRandomSettings up to its first loop test: getSettings, then either
\* the copy to shuffle or the return of the enumeration itself.
GetRandomSettings ==
    /\ settingsPc = "idle"
    /\ settings' = getSettings(config)
    /\ IF Truthy(config.RANDOM_SAMPLE_NUMBER)
       THEN /\ shuffled' = settings'
            /\ shuffleIndex' = Len(settings') - 1
            /\ sampled' = Null
            /\ settingsPc' = "shuffle"
       ELSE /\ sampled' = Some(settings')
            /\ settingsPc' = "returned"
            /\ UNCHANGED <<shuffled, shuffleIndex>>
    /\ UNCHANGED config

\* One iteration of the shuffle loop: j is any of 0..i.
ShuffleStep ==
    /\ settingsPc = "shuffle"
    /\ shuffleIndex > 0
    /\ \E j \in 0..shuffleIndex :
          shuffled' = Swapped(shuffled, shuffleIndex, j)
    /\ shuffleIndex' = shuffleIndex - 1
    /\ UNCHANGED <<config, settings, sampled, settingsPc>>

\* The loop is over: return shuffled.slice(0, Math.min(number, length)).
ReturnSlice ==
    /\ settingsPc = "shuffle"
    /\ shuffleIndex <= 0
    /\ sampled' =
          Some(Slice(shuffled,
                     Min(Val(config.RANDOM_SAMPLE_NUMBER), Len(shuffled))))
    /\ settingsPc' = "returned"
    /\ UNCHANGED <<config, settings, shuffled, shuffleIndex>>

SettingsNext ==
    \/ GetRandomSettings /\ UNCHANGED settingsFrame
    \/ ShuffleStep /\ UNCHANGED settingsFrame
    \/ ReturnSlice /\ UNCHANGED settingsFrame

\* ------------------------------------------- the report of the winner
\* The realized PnL of a trade in the model: a loss, nothing, two gains.
TradePnls == {-10, 0, 5, 10}
PnlSequences == UNION { [1..n -> TradePnls] : n \in 0..MaxTrades }

\* The run after trades that realized `pnls`, each counted by
\* updateTradeStats and put on the ledger.
RECURSIVE TradedRun(_, _)
TradedRun(e, pnls) ==
    IF pnls = <<>> THEN e
    ELSE LET opened ==
                 [e EXCEPT !.openTimestamp =
                      Some(KLINE_START_TIME
                           + 2 * e.totalTrades * KLINE_INTERVAL_MS)]
             closeTimestamp == Val(opened.openTimestamp) + KLINE_INTERVAL_MS
             counted == updateTradeStats(opened, Head(pnls), closeTimestamp)
         IN  TradedRun(
                 [counted EXCEPT
                    !.openTimestamp = Null,
                    !.tradeRecords =
                        Append(@, [pnl |-> Head(pnls),
                                   openTimestamp |-> Val(opened.openTimestamp),
                                   closeTimestamp |-> closeTimestamp])],
                 Tail(pnls))

\* The results main can be given: any ledger of the model, with counters.
DetailedResults ==
    { getResult(TradedRun(BacktestEngine(<<"1">>, 1, TRUE, Null), pnls)) :
        pnls \in PnlSequences }

\* No report is studied.
ReportIdle ==
    /\ detailedResult = getResult(BacktestEngine(<<"1">>, 1, TRUE, Null))
    /\ report = Null

\* main holds the result of the winning run.
ReportInit ==
    /\ detailedResult \in DetailedResults
    /\ report = Null

\* main derives the statistics of the report.
Report ==
    /\ report = Null
    /\ report' =
         Some([profitFactor |->
                   profitFactor(detailedResult.winningTrades,
                                detailedResult.losingTrades,
                                detailedResult.tradeRecords)])
    /\ UNCHANGED detailedResult

ReportNext ==
    \/ Report /\ UNCHANGED reportFrame

Init ==
    EngineInit /\ SearchInit /\ LoadInit /\ RsiIdle /\ SettingsIdle /\ ReportIdle
Next == EngineNext
Spec == Init /\ [][Next]_vars

\* run() on the candles of a high-priced symbol.
HighPriceSpec == Init /\ [][HighPriceNext]_vars

\* The optimizer loop and the loads on their own: the other parts stay as
\* they start.
IdleInit ==
    /\ EngineParked /\ SearchInit /\ LoadInit /\ RsiIdle /\ SettingsIdle
    /\ ReportIdle
SearchSpec == IdleInit /\ [][SearchNext]_vars
LoadSpec == IdleInit /\ [][LoadNext]_vars

\* getOriginalKlineData on its own, for either setting of history-to-now.
\* Every response that is awaited arrives and every cache entry expires.
PageIdleInit ==
    /\ EngineParked /\ SearchInit /\ PageInit /\ RsiIdle /\ SettingsIdle
    /\ ReportIdle
PageSpec == PageIdleInit /\ [][PageNext]_vars /\ WF_vars(PageNext)

\* computeRSI on its own.
RsiIdleInit ==
    /\ EngineParked /\ SearchInit /\ LoadInit /\ RsiInit /\ SettingsIdle
    /\ ReportIdle
RsiSpec == RsiIdleInit /\ [][RsiNext]_vars

\* getRandomSettings on its own, for any configuration of the model.
SettingsIdleInit ==
    /\ EngineParked /\ SearchInit /\ LoadInit /\ RsiIdle /\ SettingsInit
    /\ ReportIdle
SettingsSpec == SettingsIdleInit /\ [][SettingsNext]_vars

\* The statistics of main on their own, for any result of the model.
ReportIdleInit ==
    /\ EngineParked /\ SearchInit /\ LoadInit /\ RsiIdle /\ SettingsIdle
    /\ ReportInit
ReportSpec == ReportIdleInit /\ [][ReportNext]_vars

\* ------------------------------------------------- claims about the engine
\* A step of RunLoop: candle kline' was processed by every running engine.
LoopStep == enginePc = "loop" /\ barIndex' = barIndex + 1
BarsProcessed == barIndex - StartIndex

\* The low of candle k is below entryPrice * (1 - 1 / leverage) of the
\* position engine e holds.
Breached(e, k) ==
    /\ e.positionType = "LONG"
    /\ k.lowPrice * e.leverage < Val(e.openPrice) * (e.leverage - 1)

\* C1 as stated: whenever a LONG position is held when run() processes a bar
\* (held from before, or entered at this bar) and the bar's low is below the
\* position's liquidation price, run() returns null.
C1_LiquidationAnyHeld ==
    [][LoopStep =>
         \A r \in Runs :
            (/\ engines[r].status = "running"
             /\ \/ Breached(engines[r], kline')
                \/ Breached(engines'[r], kline'))
            => engines'[r].status = "null"]_vars

\* C1 amended: whenever a LONG position is held after the bar's signal was
\* handled (entered at this bar, or held from before and not closed by the
\* exit signal at this bar's open) and the bar's low is below
\* entryPrice * (1 - 1 / leverage), run() returns null; and a run that has
\* returned null never returns a result, whatever candles follow.
C1_Liquidation ==
    /\ [][LoopStep =>
            \A r \in Runs :
               (engines[r].status = "running" /\ Breached(engines'[r], kline'))
               => engines'[r].status = "null"]_vars
    /\ [][\A r \in Runs :
            engines[r].status = "null" => engines'[r] = engines[r]]_vars

\* C1 witness: a run liquidated on a later entry bar after a profitable trade.
C1_Witness ==
    \E r \in Runs :
        /\ engines[r].status = "null"
        /\ Breached(engines[r], kline)
        /\ engines[r].totalTrades >= 1
        /\ engines[r].totalPnl > 0

\* Mark-to-market equity of engine e at close price c.
Equity(e, c) ==
    IF e.positionType = "LONG"
    THEN e.fund + Val(e.positionFund)
         + (c - Val(e.openPrice)) * Val(e.positionAmt) * NotionalUnit(e.stepSize)
    ELSE e.fund

\* C2 as stated: after each bar processed by run(), peakFund is at least the
\* mark-to-market equity of the bar and maxDrawdown is at least
\* (peakFund - equity) / peakFund, position open or not.
C2_DrawdownEveryBar ==
    \A r \in Runs :
        (enginePc = "loop" /\ BarsProcessed > 0 /\ engines[r].status = "running")
        => LET e == engines[r]
               equity == Equity(e, kline.closePrice)
           IN  /\ e.peakFund >= equity
               /\ ~FracLess(e.maxDrawdown[1], e.maxDrawdown[2],
                            e.peakFund - equity, e.peakFund)

\* C3 as stated: a run configured with the numeric threshold t never goes on
\* with, and never returns a result with, maxDrawdown > t.
C3_ThresholdBoundsResult ==
    \A r \in {"sweep", "logged"} :
        engines[r].status \in {"running", "result"}
        => ~FracLess(configThreshold[1], configThreshold[2],
                     engines[r].maxDrawdown[1], engines[r].maxDrawdown[2])

\* A position of engine e was opened at candle k.
OpenedAt(e, k) ==
    e.positionType = "LONG" /\ e.openTimestamp = Some(k.openTime)

\* C4: at bar i a running engine opens iff it is flat and
\* entrySeries[i-1] > entryLevel, at bar i's open price and open time; it
\* closes iff it is LONG and exitSeries[i-1] < exitLevel, at bar i's open price
\* and open time (the record keeps the entry bar's open time and this bar's
\* open time); it never does both in one bar.
C4_NoLookAhead ==
    [][LoopStep =>
         \A r \in Runs :
            engines[r].status = "running" =>
              LET e == engines[r]
                  f == engines'[r]
                  closed == f.totalTrades = e.totalTrades + 1
              IN  /\ OpenedAt(f, kline')
                       <=> (e.positionType = "NONE"
                            /\ RsiAbove(rsiLongPre, RsiLongLevel))
                  /\ OpenedAt(f, kline') => f.openPrice = Some(kline'.openPrice)
                  /\ closed
                       <=> (e.positionType = "LONG"
                            /\ RsiBelow(rsiShortPre, RsiShortLevel))
                  /\ closed => f.positionType = "NONE"
                  /\ f.totalTrades \in {e.totalTrades, e.totalTrades + 1}
                  /\ (closed /\ e.shouldLogResults) =>
                       LET t == f.tradeRecords[Len(f.tradeRecords)]
                       IN  /\ Len(f.tradeRecords) = Len(e.tradeRecords) + 1
                           /\ t.openTimestamp = Val(e.openTimestamp)
                           /\ t.openPrice = Val(e.openPrice)
                           /\ t.closeTimestamp = kline'.openTime
                           /\ t.closePrice = kline'.openPrice]_vars

\* C4 witness: a trade closed by the exit signal two or more bars after its
\* entry is on the ledger with both bars' open times.
C4_Witness ==
    /\ enginePc = "loop"
    /\ \E k \in 1..Len(engines["logged"].tradeRecords) :
          LET t == engines["logged"].tradeRecords[k]
          IN  /\ t.closeTimestamp = kline.openTime
              /\ t.closeTimestamp - t.openTimestamp >= 2 * KLINE_INTERVAL_MS

PositionFields(e) ==
    { e.positionAmt, e.positionFund, e.openTimestamp, e.openPrice,
      e.liquidationPrice, e.positionMaxPrice, e.positionMinPrice }

\* C5: the state is NONE or LONG, the position fields are non-null exactly
\* while it is LONG, every trade record closes after it opens and opens
\* after the previous record's close; a trade is closed only while LONG and
\* a position is opened only while flat.
C5_OnePosition ==
    /\ [](\A r \in Runs :
           LET e == engines[r]
           IN  /\ e.positionType \in {"NONE", "LONG"}
               /\ e.positionType = "LONG" => Null \notin PositionFields(e)
               /\ e.positionType = "NONE" => PositionFields(e) = {Null}
               /\ \A k \in 1..Len(e.tradeRecords) :
                     /\ e.tradeRecords[k].closeTimestamp
                            > e.tradeRecords[k].openTimestamp
                     /\ k > 1 => e.tradeRecords[k].openTimestamp
                                    > e.tradeRecords[k - 1].closeTimestamp)
    /\ [][\A r \in Runs :
            LET e == engines[r]
                f == engines'[r]
            IN  /\ f.totalTrades # e.totalTrades
                     => (e.positionType = "LONG" /\ f.positionType = "NONE"
                         /\ f.totalTrades = e.totalTrades + 1)
                /\ (f.positionType = "LONG" /\ f.openTimestamp # e.openTimestamp)
                     => e.positionType = "NONE"]_vars

\* C5 witness: a second trade on the ledger, opened after the first closed.
C5_Witness ==
    \E r \in Runs :
        /\ Len(engines[r].tradeRecords) >= 2
        /\ engines[r].status = "result"

\* The aggregates of a run: everything of the engine but its flags and ledger.
Aggregates(e) ==
    [ status |-> e.status, fund |-> e.fund,
      totalReturn |-> getResult(e).totalReturn,
      totalTrades |-> e.totalTrades, winningTrades |-> e.winningTrades,
      losingTrades |-> e.losingTrades, totalPnl |-> e.totalPnl,
      maxDrawdown |-> e.maxDrawdown, totalHoldTimeMs |-> e.totalHoldTimeMs,
      averageHoldTimeHours |-> getResult(e).averageHoldTimeHours,
      positionType |-> e.positionType ]

\* C7: on the same candles, series, step size and parameters the run with
\* the ledger on has the aggregates of the run with it off; the ledger is
\* empty when off and holds totalTrades records in close order when on; and
\* when the sweep's run returns a result, the re-run with the ledger on and
\* no threshold returns a result with the same aggregates.
C7_LedgerTransparent ==
    /\ Aggregates(engines["logged"]) = Aggregates(engines["sweep"])
    /\ engines["sweep"].tradeRecords = <<>>
    /\ \A r \in {"logged", "detail"} :
          LET e == engines[r]
          IN  /\ Len(e.tradeRecords) = e.totalTrades
              /\ \A k \in 2..Len(e.tradeRecords) :
                    e.tradeRecords[k].closeTimestamp
                        > e.tradeRecords[k - 1].closeTimestamp
    /\ engines["sweep"].status = "result"
          => Aggregates(engines["detail"]) = Aggregates(engines["sweep"])

\* C7 witness: the sweep's run returned a result with trades, re-run with a
\* ledger of as many records.
C7_Witness ==
    /\ enginePc = "done"
    /\ engines["sweep"].status = "result"
    /\ engines["sweep"].totalTrades >= 2
    /\ Len(engines["detail"].tradeRecords) = engines["sweep"].totalTrades

\* ---------------------------------------------- claims about the optimizer
\* The positions of the candidates whose run returned a result.
Returned == { k \in 1..Len(searchResults) : searchResults[k] # Null }
\* Those whose totalReturn is above -1.
Competing ==
    { k \in Returned :
        ReturnGreater(Val(searchResults[k]).totalReturn, <<-1, 1>>) }
\* The first position, in iteration order, with the greatest totalReturn
\* among the candidates that returned a result.
FirstBest ==
    CHOOSE k \in Returned :
        /\ \A j \in Returned :
              ~ReturnGreater(Val(searchResults[j]).totalReturn,
                             Val(searchResults[k]).totalReturn)
        /\ \A j \in Returned :
              j < k => ReturnGreater(Val(searchResults[k]).totalReturn,
                                     Val(searchResults[j]).totalReturn)

\* C6: the running best is the first candidate, in iteration order, with the
\* greatest totalReturn among the candidates whose run returned a result; if
\* no candidate returned a result with totalReturn > -1 it is the no-result
\* state, which main reports as "No valid result found"; any other outcome
\* is reported as the result.
C6_FirstBest ==
    /\ IF Competing = {}
       THEN bestResult = NoResult
       ELSE bestResult = Val(searchResults[FirstBest])
    /\ searchPc \in {"reported", "noresult"} =>
          IF Competing = {}
          THEN searchPc = "noresult" /\ consoleLog = Some("No valid result found")
          ELSE searchPc = "reported" /\ consoleLog = Some("report")

\* C6 witness: two candidates tie for the greatest totalReturn, after an
\* invalidated one, and the earlier of the two is returned.
C6_Witness ==
    /\ searchPc = "reported"
    /\ Len(searchResults) = 3
    /\ searchResults[1] = Null
    /\ searchResults[2] # Null
    /\ searchResults[3] # Null
    /\ Val(searchResults[2]).totalReturn = Val(searchResults[3]).totalReturn
    /\ bestResult.setting = Some(2)

\* C6 witness of the no-result outcome: every run was invalidated or lost
\* its whole fund.
C6_WitnessNoResult ==
    /\ searchPc = "noresult"
    /\ Returned # {}
    /\ Competing = {}

\* -------------------------------------------------- claims about the loads
\* C8: the candle history is loaded by one population event: the calls that
\* start together do not each send their own requests to the Candle Store,
\* and klineCache and closePricesCache are assigned at most once.
C8_SinglePopulation ==
    /\ Cardinality({c \in KlineCalls : calls[c].pc = "fetching"}) <= 1
    /\ population.fetches <= 1
    /\ population.klineCache <= 1
    /\ population.closePricesCache <= 1

\* C9: every simulation replays the candles whose closes its series were
\* computed from: same length, same close at every index, in the sweep and
\* in the re-run.
C9_SeriesAligned ==
    \A s \in simulations :
        /\ s.values = ClosePrices(s.cachedKlineData)
        /\ \A p \in DOMAIN s.cachedRsiData :
              Len(s.cachedRsiData[p]) = Len(s.cachedKlineData)

\* An attempt of call c fails in this step.
AttemptFails(c) ==
    /\ calls[c].pc = "fetching"
    /\ \/ calls'[c].pc = "failed"
       \/ calls'[c].pc = "fetching" /\ calls'[c].i = calls[c].i + 1
\* An attempt of call c succeeds in this step.
AttemptSucceeds(c) ==
    /\ calls[c].pc = "fetching"
    /\ calls'[c] # calls[c]
    /\ ~AttemptFails(c)
\* The key of the request call c waits for.
KeyOf(c) ==
    IF c \in KlineCalls THEN KlineKey(calls[c].startTime) ELSE ExchangeInfoKey

\* C10: a request is attempted at most RETRIES times; a failed attempt
\* leaves nodeCache as it is, and the failure of the last attempt is fatal;
\* the response of a successful attempt is cached and is what the call goes
\* on with, and no further attempt of that request is made; a simulation
\* runs only when the three calls have returned, the step being that of the
\* LOT_SIZE filter of the symbol; nothing runs after a fatal error.
C10_BoundedRetry ==
    /\ [](\A c \in Calls : calls[c].i < RETRIES)
    /\ [][\A c \in Calls :
            /\ AttemptFails(c) =>
                 /\ nodeCache' = nodeCache
                 /\ calls'[c].pc = "failed" <=> calls[c].i = RETRIES - 1
                 /\ calls'[c].pc = "failed" => mainPc' = "fatal"
            /\ AttemptSucceeds(c) =>
                 /\ CacheHas(nodeCache', KeyOf(c))
                 /\ calls'[c].i = 0
                 /\ IF c \in KlineCalls
                    THEN LET got == calls[c].data \o CacheGet(nodeCache', KeyOf(c))
                         IN  SubSeq(calls'[c].data, 1, Len(got)) = got
                    ELSE calls'[c].data = Some(CacheGet(nodeCache', KeyOf(c)))
            /\ calls'[c].pc = "threw" => mainPc' = "fatal"]_vars
    /\ [][simulations' # simulations =>
            /\ AllLoaded
            /\ \A s \in simulations' \ simulations :
                  /\ StepSizeOf(Val(calls["getStepSize"].data)) = Some(s.stepSize)
                  /\ s.cachedKlineData = klineCache \/ s.run = "sweep"
                  /\ DOMAIN s.cachedRsiData = PeriodSet]_vars
    /\ [][mainPc = "fatal" => UNCHANGED vars]_vars

\* C10 witness: the third attempt of a request failed while another call
\* had returned, and nothing ran.
C10_Witness ==
    /\ mainPc = "fatal"
    /\ simulations = {}
    /\ \E c \in Calls : calls[c].pc = "failed" /\ calls[c].i = RETRIES - 1
    /\ \E c \in Calls : calls[c].pc = "done"
    /\ nodeCache # {}

\* C10 witness of the sweep after a retried request.
C10_WitnessSweep ==
    /\ simulations # {}
    /\ population.fetches = 2

\* ------------------------------------------- claims about the pagination
\* C11: getOriginalKlineData terminates whatever the Candle Store answers,
\* an empty page included: it eventually returns the history.
C11_Terminates == <>(calls["getKlineCache"].pc = "loaded")

\* ------------------------------------------- claims about the oscillator
\* The change from the close of index k - 1 to the close of index k.
ChangeTo(k) == values[k + 1] - values[k]
\* The sum of f over 1..n.
RECURSIVE SumTo(_, _)
SumTo(f, n) == IF n = 0 THEN 0 ELSE f[n] + SumTo(f, n - 1)
\* Wilder's averages at index i >= p, as the fractions g / d and l / d: the
\* plain means of the gains and of the loss magnitudes of the first p
\* changes at index p, and (previous * (p - 1) + component of the change
\* to i) / p after it.
RECURSIVE Wilder(_, _)
Wilder(p, i) ==
    IF i = p
    THEN [ g |-> SumTo([k \in 1..p |-> Max(ChangeTo(k), 0)], p),
           l |-> SumTo([k \in 1..p |-> Max(-ChangeTo(k), 0)], p),
           d |-> p ]
    ELSE LET prev == Wilder(p, i - 1)
         IN  [ g |-> prev.g * (p - 1) + Max(ChangeTo(i), 0) * prev.d,
               l |-> prev.l * (p - 1) + Max(-ChangeTo(i), 0) * prev.d,
               d |-> prev.d * p ]
\* The oscillator value of averages a: 100 - 100 / (1 + gain / loss).
Oscillator(a) ==
    IF a.l = 0 THEN <<100, 1>>
    ELSE LET g == GCD(100 * a.g, a.g + a.l)
         IN  <<(100 * a.g) \div g, (a.g + a.l) \div g>>

\* C12: for every period p and more than p closes, the averages behind the
\* value at index p are the plain means of the first p changes' gains and
\* loss magnitudes, the averages at each later index follow Wilder's
\* recurrence, and the values returned are those of these averages.
C12_WilderSeed ==
    results # Null =>
      \A p \in periods :
         \A i \in p..(Len(values) - 1) :
            LET a == Smoothed(values, p, i)
                w == Wilder(p, i)
            IN  /\ a.g * w.d = w.g * a.d
                /\ a.l * w.d = w.l * a.d
                /\ Val(results)[p][i + 1] = Some(Oscillator(w))

\* C13: the series of every period p has the length N of the closes; when
\* N >= p + 1 its entries at the indices 0..p-1 are null and those at
\* p..N-1 are not; when N < p + 1, and for every period when N < 2, all of
\* it is null.
C13_LeadingNulls ==
    results # Null =>
      \A p \in periods :
         LET series == Val(results)[p]
             N == Len(values)
         IN  /\ Len(series) = N
             /\ \A k \in 1..N :
                   series[k] = Null <=> (N < p + 1 \/ N < 2 \/ k - 1 < p)

\* C13 witness: a call whose closes are enough for one period and too few
\* for another.
C13_Witness ==
    /\ results # Null
    /\ \E p \in periods, q \in periods :
          /\ Len(values) >= p + 2
          /\ Len(values) < q + 1
          /\ Val(results)[p][p + 1] # Null
          /\ Val(results)[q] = [k \in 1..Len(values) |-> Null]

\* C14: every value of a series is in [0, 100], and it is 100 whenever the
\* smoothed loss of its index is 0, the smoothed gain being 0 or not.
C14_Range ==
    results # Null =>
      \A p \in periods :
         \A k \in 1..Len(values) :
            LET v == Val(results)[p][k]
            IN  v # Null =>
                  /\ Val(v)[2] > 0
                  /\ 0 <= Val(v)[1]
                  /\ Val(v)[1] <= 100 * Val(v)[2]
                  /\ Smoothed(values, p, k - 1).l = 0 => Val(v) = <<100, 1>>

\* C14 witness: a flat sequence, of value 100, beside one that fell and
\* rose, of a value strictly between 0 and 100.
C14_Witness ==
    /\ results # Null
    /\ \E p \in periods :
          /\ Len(values) = p + 2
          /\ ChangeTo(p + 1) < 0
          /\ Val(results)[p][p + 1] = Some(<<100, 1>>)
          /\ Val(Val(results)[p][p + 2])[1] > 0
          /\ Val(Val(results)[p][p + 2])[1] < 100 * Val(Val(results)[p][p + 2])[2]

\* --------------------------------- claims about the parameter combinations
\* The values of an inclusive range: min, min + step, ... up to max.
RangeValues(setting) ==
    { v \in setting.min..setting.max : (v - setting.min) % setting.step = 0 }

\* The cartesian product of the five ranges of a configuration.
Space(c) ==
    [leverage : RangeValues(c.LEVERAGE_SETTING),
     rsiLongPeriod : RangeValues(c.RSI_LONG_PERIOD_SETTING),
     rsiShortPeriod : RangeValues(c.RSI_SHORT_PERIOD_SETTING),
     rsiLongLevel : RangeValues(c.RSI_LONG_LEVEL_SETTING),
     rsiShortLevel : RangeValues(c.RSI_SHORT_LEVEL_SETTING)]

\* The dimensions from the outermost to the innermost, with their ranges.
Dimensions ==
    <<"leverage", "rsiLongPeriod", "rsiShortPeriod", "rsiLongLevel",
      "rsiShortLevel">>
RangeOfDimension ==
    [leverage |-> "LEVERAGE_SETTING",
     rsiLongPeriod |-> "RSI_LONG_PERIOD_SETTING",
     rsiShortPeriod |-> "RSI_SHORT_PERIOD_SETTING",
     rsiLongLevel |-> "RSI_LONG_LEVEL_SETTING",
     rsiShortLevel |-> "RSI_SHORT_LEVEL_SETTING"]

\* s comes before t in the lexicographic order of Dimensions.
LexLess(s, t) ==
    \E d \in 1..Len(Dimensions) :
        /\ s[Dimensions[d]] < t[Dimensions[d]]
        /\ \A e \in 1..(d - 1) : s[Dimensions[e]] = t[Dimensions[e]]

\* The values of one dimension in a list of combinations, repeats dropped.
RECURSIVE Visited(_, _)
Visited(list, dimension) ==
    IF list = <<>> THEN <<>>
    ELSE LET rest == Visited(Tail(list), dimension)
             v == Head(list)[dimension]
         IN  IF rest # <<>> /\ Head(rest) = v THEN rest ELSE <<v>> \o rest

Enumerated == settingsPc # "idle"

\* C15: getSettings returns exactly the cartesian product of the five
\* inclusive ranges, each combination once, in lexicographic order with
\* leverage outermost and rsiShortLevel innermost; the count is the product
\* of the five range sizes; a range {min 1, max 3, step 1} on a single
\* dimension (the others holding one value) contributes exactly 1, 2, 3.
C15_CartesianProduct ==
    Enumerated =>
        /\ { settings[k] : k \in 1..Len(settings) } = Space(config)
        /\ Len(settings) = Cardinality(Space(config))
        /\ Len(settings) =
             Cardinality(RangeValues(config.LEVERAGE_SETTING))
               * Cardinality(RangeValues(config.RSI_LONG_PERIOD_SETTING))
               * Cardinality(RangeValues(config.RSI_SHORT_PERIOD_SETTING))
               * Cardinality(RangeValues(config.RSI_LONG_LEVEL_SETTING))
               * Cardinality(RangeValues(config.RSI_SHORT_LEVEL_SETTING))
        /\ \A k \in 1..(Len(settings) - 1) :
              LexLess(settings[k], settings[k + 1])
        /\ \A d \in 1..Len(Dimensions) :
              (/\ config[RangeOfDimension[Dimensions[d]]] = Range(1, 3, 1)
               /\ Len(settings) = 3)
              => Visited(settings, Dimensions[d])
                   = <<1 * Unit, 2 * Unit, 3 * Unit>>

\* Two dimensions of two values each have been enumerated: the order of
\* the nesting shows.
C15_Witness ==
    /\ Enumerated
    /\ Len(settings) = 4
    /\ Cardinality(RangeValues(config.LEVERAGE_SETTING)) = 2
    /\ Cardinality(RangeValues(config.RSI_SHORT_LEVEL_SETTING)) = 2
    /\ config.RSI_SHORT_LEVEL_SETTING = Range(1, 3, 2)

\* The single range {1, 3, 1} has been enumerated.
C15_WitnessSingleRange ==
    /\ Enumerated
    /\ Len(settings) = 3
    /\ config.RSI_LONG_PERIOD_SETTING = Range(1, 3, 1)

SampleReturned == settingsPc = "returned"

\* C16: for every outcome of the random source and every numeric sample
\* number k, getRandomSettings returns min(k, |space|) pairwise distinct
\* combinations of the full enumeration; with k >= |space| the returned set
\* is the full space; with no sample number it returns the enumeration in
\* its order.
C16_Sample ==
    SampleReturned =>
        LET k == config.RANDOM_SAMPLE_NUMBER
            returned == Val(sampled)
            space == getSettings(config)
        IN  IF k = Null
            THEN returned = space
            ELSE /\ Len(returned) = Min(Val(k), Len(space))
                 /\ \A a, b \in 1..Len(returned) :
                       a # b => returned[a] # returned[b]
                 /\ \A a \in 1..Len(returned) :
                       \E b \in 1..Len(space) : returned[a] = space[b]
                 /\ Val(k) >= Len(space)
                      => { returned[a] : a \in 1..Len(returned) }
                           = { space[b] : b \in 1..Len(space) }

\* ----------------------------------------- claims about the end of a run
\* The step of RunEnd: the loop is over, closePositionAtEnd and getResult.
EndStep == enginePc = "loop" /\ enginePc' = "done"

\* The candle a signal close at price p and time t is given.
ClosingKline(p, t) ==
    [ openPrice |-> p, highPrice |-> p, lowPrice |-> p, closePrice |-> p,
      openTime |-> t, closeTime |-> t ]

\* C17: every run that returns a result ends flat: a position still open
\* after the last candle is closed at that candle's close price and close
\* time and counted as one trade, with the fee, funding fee and counter
\* updates of a signal close at that price and time; a run that is flat at
\* the end returns its state as it is; the result's currentPositionType is
\* always NONE.
C17_EndsFlat ==
    /\ [](\A r \in Runs :
            engines[r].status = "result"
            => /\ getResult(engines[r]).currentPositionType = "NONE"
               /\ PositionFields(engines[r]) = {Null})
    /\ [][EndStep =>
            \A r \in Runs :
               engines[r].status = "running" =>
                 LET e == engines[r]
                     f == engines'[r]
                     c == closeLongPosition(
                            e, ClosingKline(kline.closePrice, kline.closeTime))
                 IN  /\ f.status = "result"
                     /\ e.positionType = "NONE"
                          => f = [e EXCEPT !.status = "result"]
                     /\ e.positionType = "LONG"
                          => /\ f.totalTrades = e.totalTrades + 1
                             /\ Aggregates(f)
                                  = Aggregates([c EXCEPT !.status = "result"])
                             /\ e.shouldLogResults
                                  => LET t == f.tradeRecords[Len(f.tradeRecords)]
                                     IN  /\ Len(f.tradeRecords)
                                              = Len(e.tradeRecords) + 1
                                         /\ t.closePrice = kline.closePrice
                                         /\ t.closeTimestamp = kline.closeTime
                                         /\ t.openTimestamp = Val(e.openTimestamp)
                                         /\ t.pnl = f.totalPnl - e.totalPnl]_vars

\* C17 witness: a result whose last trade was closed by the end of the
\* data, at the last candle's close, after an earlier signal close.
C17_Witness ==
    /\ enginePc = "done"
    /\ engines["logged"].status = "result"
    /\ Len(engines["logged"].tradeRecords) >= 2
    /\ LET t == engines["logged"].tradeRecords[Len(engines["logged"].tradeRecords)]
       IN  /\ t.closeTimestamp = kline.closeTime
           /\ t.closePrice = kline.closePrice
           /\ t.closePrice # t.openPrice

\* A run that has not traded: flat, its funds and counters as constructed.
Untouched(e) ==
    /\ e.status = "running"
    /\ e.positionType = "NONE"
    /\ e.fund = INITIAL_FUNDING * Scale
    /\ e.totalTrades = 0 /\ e.winningTrades = 0 /\ e.losingTrades = 0
    /\ e.totalPnl = 0 /\ e.totalHoldTimeMs = 0
    /\ e.tradeRecords = <<>>

\* The ratio v = <<n, d>> is the number 0.
IsZero(v) == v[1] = 0 /\ v[2] > 0

\* C18: a run starts untraded; a bar whose previous-bar entry oscillator
\* does not exceed the entry level leaves an untraded run untraded and
\* running; and an untraded run completes with zero trades, fund equal to
\* the initial funding, totalReturn 0, winRate 0, averageHoldTimeHours 0, an
\* empty ledger and exposure 0. So a run whose entry level is never
\* exceeded returns that result.
C18_NoEntryNoTrade ==
    /\ [](enginePc = "new" => \A r \in Runs : Untouched(engines[r]))
    /\ [][LoopStep =>
            \A r \in Runs :
               (Untouched(engines[r]) /\ ~RsiAbove(rsiLongPre, RsiLongLevel))
               => Untouched(engines'[r])]_vars
    /\ [][EndStep =>
            \A r \in Runs :
               Untouched(engines[r]) =>
                 LET result == getResult(engines'[r])
                 IN  /\ engines'[r].status = "result"
                     /\ result.totalTrades = 0
                     /\ result.fund = INITIAL_FUNDING * Scale
                     /\ IsZero(result.totalReturn)
                     /\ IsZero(result.winRate)
                     /\ IsZero(result.averageHoldTimeHours)
                     /\ result.tradeRecords = <<>>
                     /\ IsZero(exposure(result.tradeRecords,
                                        Kline(0, 10, 10, 10, 10), kline))]_vars

\* C18 witness: every run returned the untraded result after MaxBars bars
\* whose prices moved.
C18_Witness ==
    /\ enginePc = "done"
    /\ BarsProcessed = MaxBars
    /\ kline.closePrice # kline.openPrice
    /\ \A r \in Runs :
          /\ engines[r].status = "result"
          /\ engines[r].totalTrades = 0
          /\ engines[r].fund = INITIAL_FUNDING * Scale

\* ------------------------------------------- claims about the statistics
\* The sum of the realized PnL of the trades of a ledger at the indices S.
RECURSIVE PnlOver(_, _)
PnlOver(tradeRecords, S) ==
    IF S = {} THEN 0
    ELSE LET k == CHOOSE k \in S : TRUE
         IN  tradeRecords[k].pnl + PnlOver(tradeRecords, S \ {k})

\* The winning trades of a ledger (realized PnL > 0) and the losing ones.
Winners(tradeRecords) ==
    { k \in 1..Len(tradeRecords) : tradeRecords[k].pnl > 0 }
Losers(tradeRecords) ==
    { k \in 1..Len(tradeRecords) : ~(tradeRecords[k].pnl > 0) }

\* a / b for a, b >= 0 as the program's numbers divide them: Infinity for
\* a > 0 = b, not a number for 0 / 0.
Quotient(a, b) ==
    IF b > 0 THEN <<a, b>> ELSE IF a > 0 THEN Infinity ELSE <<0, 0>>

\* C19: winningTrades counts the trades with realized PnL > 0 and
\* losingTrades the others; the profit factor is Infinity when
\* losingTrades = 0 and winningTrades > 0, is 0 when winningTrades = 0, and
\* otherwise is the gross profit divided by the absolute gross loss.
C19_ProfitFactor ==
    report # Null =>
        LET tradeRecords == detailedResult.tradeRecords
            winningTrades == detailedResult.winningTrades
            losingTrades == detailedResult.losingTrades
            grossProfit == PnlOver(tradeRecords, Winners(tradeRecords))
            grossLoss == PnlOver(tradeRecords, Losers(tradeRecords))
            factor == Val(report).profitFactor
        IN  /\ winningTrades = Cardinality(Winners(tradeRecords))
            /\ losingTrades = Cardinality(Losers(tradeRecords))
            /\ (losingTrades = 0 /\ winningTrades > 0) => factor = Infinity
            /\ winningTrades = 0 => IsZero(factor)
            /\ (winningTrades > 0 /\ losingTrades > 0)
                 => factor = Quotient(grossProfit, Abs(grossLoss))

\* C19 witness: the profit factor of a ledger with two gains and a loss.
C19_Witness ==
    /\ report # Null
    /\ detailedResult.winningTrades = 2
    /\ detailedResult.losingTrades = 1
    /\ Val(report).profitFactor = <<15, 10>>

\* C19 witnesses of the other cases: gains only, no gain, and a gain with
\* losing trades that lost nothing.
C19_WitnessInfinity ==
    /\ report # Null
    /\ detailedResult.winningTrades > 0
    /\ detailedResult.losingTrades = 0
    /\ Val(report).profitFactor = Infinity

C19_WitnessZero ==
    /\ report # Null
    /\ detailedResult.winningTrades = 0
    /\ detailedResult.totalTrades \in {0, MaxTrades}

C19_WitnessNoLoss ==
    /\ report # Null
    /\ detailedResult.winningTrades > 0
    /\ detailedResult.losingTrades > 0
    /\ Val(report).profitFactor = Infinity

\* ------------------------------------- claims about the fund accounting
\* The open fee of the position engine e holds: quantity * entryPrice * FEE.
OpenFee(e) ==
    (Val(e.positionAmt) * Val(e.openPrice) * NotionalUnit(e.stepSize) * FEE)
        \div RateDen

\* The open fee of a trade on the ledger of a run with this leverage, from
\* the margin the record divides its PnL by: margin * leverage * FEE.
OpenFeeOf(t, leverage) == (t.pnlPercent[2] * leverage * FEE) \div RateDen

\* The sum of pnl - open fee over the first n records of the ledger of e.
RECURSIVE NetOfTrades(_, _)
NetOfTrades(e, n) ==
    IF n = 0 THEN 0
    ELSE e.tradeRecords[n].pnl - OpenFeeOf(e.tradeRecords[n], e.leverage)
         + NetOfTrades(e, n - 1)

\* C20: an entry takes the margin and the open fee from fund, a close
\* returns the margin in full and adds the realized PnL, and nothing else
\* changes fund; so a flat run has fund = INITIAL_FUNDING + totalPnl - (the
\* sum of the open fees), totalTrades = winningTrades + losingTrades, and
\* with the ledger on each record's finalFund is the fund right after that
\* close: the initial funding plus pnl - open fee of the trades so far, the
\* last one the fund of the flat run.
C20_FundConserved ==
    /\ [][\A r \in Runs :
            LET e == engines[r]
                f == engines'[r]
            IN  /\ (e.positionType = "NONE" /\ f.positionType = "LONG")
                     => f.fund = e.fund - Val(f.positionFund) - OpenFee(f)
                /\ (e.positionType = "LONG" /\ f.positionType = "NONE")
                     => /\ f.fund = e.fund + Val(e.positionFund)
                                      + (f.totalPnl - e.totalPnl)
                        /\ f.fund - (e.fund + Val(e.positionFund) + OpenFee(e))
                             = (f.totalPnl - e.totalPnl) - OpenFee(e)
                /\ f.positionType = e.positionType => f.fund = e.fund]_vars
    /\ [](\A r \in Runs :
            engines[r].totalTrades
                = engines[r].winningTrades + engines[r].losingTrades)
    /\ [](\A r \in {"logged", "detail"} :
            LET e == engines[r]
                n == Len(e.tradeRecords)
            IN  /\ e.totalPnl = SumPnl(e.tradeRecords)
                /\ \A k \in 1..n :
                      e.tradeRecords[k].finalFund
                          = INITIAL_FUNDING * Scale + NetOfTrades(e, k)
                /\ e.positionType = "NONE"
                     => /\ e.fund = INITIAL_FUNDING * Scale + NetOfTrades(e, n)
                        /\ n > 0 => e.tradeRecords[n].finalFund = e.fund
                /\ e.positionType = "LONG"
                     => e.fund + Val(e.positionFund) + OpenFee(e)
                          = INITIAL_FUNDING * Scale + NetOfTrades(e, n))
    /\ [](engines["sweep"].status = "result"
            => engines["sweep"].fund = engines["logged"].fund)

\* C20 witness: a completed run with two trades on the ledger, a gain and a
\* loss, whose fund is not the initial funding.
C20_Witness ==
    LET e == engines["logged"]
    IN  /\ e.status = "result"
        /\ Len(e.tradeRecords) = 2
        /\ e.winningTrades = 1 /\ e.losingTrades = 1
        /\ e.fund # INITIAL_FUNDING * Scale
        /\ e.tradeRecords[2].finalFund = e.fund
        /\ engines["sweep"].status = "result"

\* ------------------------------------------ claims about the excursions
\* The ratios a and b are the same number (denominators positive).
SameNumber(a, b) == a[2] > 0 /\ b[2] > 0 /\ a[1] * b[2] = b[1] * a[2]

\* The last record of the ledger of engine e.
LastTrade(e) == e.tradeRecords[Len(e.tradeRecords)]

\* The record t holds the excursions of a position of engine e entered at
\* entryPrice whose lowest low was lo and highest high was hi.
Excursions(t, e, entryPrice, lo, hi) ==
    /\ SameNumber(t.mae, <<-(entryPrice - lo), entryPrice>>)
    /\ SameNumber(t.mfe, <<hi - entryPrice, entryPrice>>)
    /\ SameNumber(t.maeLeveraged, <<-(entryPrice - lo) * e.leverage, entryPrice>>)
    /\ SameNumber(t.mfeLeveraged, <<(hi - entryPrice) * e.leverage, entryPrice>>)

\* C21: a position starts with the low and high of its entry bar as its
\* lowest low and highest high, every bar it is held through lowers and
\* raises them with that bar's low and high, and the record of its close
\* takes its excursions from the lowest low and highest high up to and
\* including the closing bar; so with low <= open <= high on every candle
\* the adverse excursion of every record is <= 0 and the favorable one
\* >= 0, and the leverage-scaled values are the plain values times leverage.
C21_Excursions ==
    /\ [][LoopStep =>
            \A r \in {"logged", "detail"} :
               engines[r].status = "running" =>
                 LET e == engines[r]
                     f == engines'[r]
                 IN  /\ (e.positionType = "NONE" /\ f.positionType = "LONG")
                          => /\ f.positionMinPrice = Some(kline'.lowPrice)
                             /\ f.positionMaxPrice = Some(kline'.highPrice)
                     /\ (e.positionType = "LONG" /\ f.positionType = "LONG")
                          => /\ Val(f.positionMinPrice)
                                  = Min(Val(e.positionMinPrice), kline'.lowPrice)
                             /\ Val(f.positionMaxPrice)
                                  = Max(Val(e.positionMaxPrice), kline'.highPrice)
                     /\ (e.positionType = "LONG" /\ f.positionType = "NONE")
                          => Excursions(
                               LastTrade(f), e, Val(e.openPrice),
                               Min(Val(e.positionMinPrice), kline'.lowPrice),
                               Max(Val(e.positionMaxPrice), kline'.highPrice))]_vars
    /\ [][EndStep =>
            \A r \in {"logged", "detail"} :
               (engines[r].status = "running" /\ engines[r].positionType = "LONG")
               => /\ Val(engines[r].positionMinPrice) <= kline.lowPrice
                  /\ Val(engines[r].positionMaxPrice) >= kline.highPrice
                  /\ Excursions(LastTrade(engines'[r]), engines[r],
                                Val(engines[r].openPrice),
                                Val(engines[r].positionMinPrice),
                                Val(engines[r].positionMaxPrice))]_vars
    /\ [](\A r \in Runs :
            LET e == engines[r]
            IN  /\ e.positionType = "LONG"
                     => /\ Val(e.positionMinPrice) <= Val(e.openPrice)
                        /\ Val(e.openPrice) <= Val(e.positionMaxPrice)
                /\ \A k \in 1..Len(e.tradeRecords) :
                      LET t == e.tradeRecords[k]
                      IN  /\ t.mae[1] <= 0 /\ t.mae[2] > 0
                          /\ t.mfe[1] >= 0 /\ t.mfe[2] > 0
                          /\ SameNumber(t.maeLeveraged,
                                        <<t.mae[1] * e.leverage, t.mae[2]>>)
                          /\ SameNumber(t.mfeLeveraged,
                                        <<t.mfe[1] * e.leverage, t.mfe[2]>>))

\* C21 witness: a trade held over two bars or more whose adverse excursion
\* is negative, another whose favorable excursion is positive, both closed
\* at their entry price, so that the extremes are not the close.
C21_Witness ==
    LET e == engines["detail"]
    IN  /\ Len(e.tradeRecords) >= 1
        /\ e.leverage = 2
        /\ LET t == e.tradeRecords[1]
           IN  /\ t.closeTimestamp - t.openTimestamp >= 2 * KLINE_INTERVAL_MS
               /\ t.mfe[1] > 0
               /\ t.closePrice = t.openPrice

C21_WitnessAdverse ==
    LET e == engines["detail"]
    IN  /\ Len(e.tradeRecords) >= 1
        /\ LET t == e.tradeRecords[1]
           IN  /\ t.closeTimestamp - t.openTimestamp >= 2 * KLINE_INTERVAL_MS
               /\ t.mae[1] < 0
               /\ t.closePrice = t.openPrice

\* ------------------------------------------------ claims about the entry
\* A step on which engine r opened a position.
Entered(r) ==
    engines[r].positionType = "NONE" /\ engines'[r].positionType = "LONG"

\* C22 as stated: right after openLongPosition the uncommitted fund, the
\* fund before the entry minus the committed margin minus the open fee, is
\* >= 0.
C22_NeverOvercommits ==
    [][\A r \in Runs :
          Entered(r) =>
            /\ engines'[r].fund
                 = engines[r].fund - Val(engines'[r].positionFund)
                     - OpenFee(engines'[r])
            /\ engines'[r].fund >= 0]_vars

\* C23 as stated: a position is held only with a strictly positive
\* quantity and committed margin, and every trade record's pnlPercent, the
\* realized PnL divided by the committed margin, is defined: no trade of
\* quantity 0 is counted or recorded.
C23_PositiveQuantity ==
    \A r \in Runs :
        LET e == engines[r]
        IN  /\ e.positionType = "LONG"
                 => Val(e.positionAmt) > 0 /\ Val(e.positionFund) > 0
            /\ \A k \in 1..Len(e.tradeRecords) :
                  e.tradeRecords[k].pnlPercent[2] > 0

====
